---- MODULE Spec2Model ----
(***************************************************************************)
(* Model of the data-wizard-amazon service layer:                          *)
(*   - DatabaseService (src/src/services/db-service.ts): the IndexedDB     *)
(*     wrapper with the credentials, responses, historical and lastLogin   *)
(*     object stores;                                                      *)
(*   - AmazonService (src/src/services/amazon-service.ts): in-memory       *)
(*     credentials, the simulated access token, fetchFromEndpoint,         *)
(*     fetchAllEndpoints and the progress listeners, with the revision     *)
(*     of fetchAllEndpoints that ends with a snapshot                      *)
(*     (src/unnamed/part_004);                                             *)
(*   - the pages that call them: the login flow of Index                   *)
(*     (src/src/pages/Index.tsx) and the isFetching guard of DashboardPage *)
(*     (src/src/pages/DashboardPage.tsx).                                  *)
(* Asynchronous methods are split at their awaits: one action per          *)
(* synchronous segment, so that calls interleave as they do on the event   *)
(* loop.  Date.now() is the variable now, advanced by Tick.                *)
(***************************************************************************)
EXTENDS Integers, Sequences, FiniteSets, TLC

VARIABLES
  now,               \* Date.now()
  ticks,             \* number of clock advances so far (bounds the run)
  dbCredentials,     \* object store 'credentials', key 'amazon-credentials'
  responses,         \* object store 'responses' (set of records, keyPath id)
  historical,        \* object store 'historical' (set of snapshots, keyPath id)
  lastLogin,         \* object store 'lastLogin', key 'last-login'
  credentials,       \* AmazonService.credentials
  accessToken,       \* AmazonService.accessToken
  tokenExpiration,   \* AmazonService.tokenExpiration
  progressStatus,    \* AmazonService.progressStatus
  progressListeners, \* AmazonService.progressListeners (sequence of callbacks)
  delivered,         \* per callback ever registered: the statuses it was invoked with
  unsubscribed,      \* the callbacks whose unregister function has been called
  setCalls,          \* setCredentials calls, by call id
  fetchCalls,        \* fetchFromEndpoint calls made directly, by call id
  bulkCalls,         \* fetchAllEndpoints calls, by call id
  initPc,            \* position of the constructor's initializeCredentials
  index,             \* the Index page: position of its checkCredentials
  dashboard,         \* the DashboardPage: its mount, listener and isFetching
  exported,          \* the document produced by the last exportAllData
  lastOp             \* the operation performed by the last step, with its result

dbVars  == <<dbCredentials, responses, historical, lastLogin>>
svcVars == <<credentials, accessToken, tokenExpiration, progressStatus,
             progressListeners, delivered, unsubscribed, setCalls, fetchCalls,
             bulkCalls, initPc>>
uiVars  == <<index, dashboard>>
vars    == <<now, ticks, dbVars, svcVars, uiVars, exported, lastOp>>

----------------------------------------------------------------------------
\* Bounds of the model

CatalogSize   == 2   \* number of catalog entries taken from API_ENDPOINTS
MaxTicks      == 1   \* clock advances in one run
MaxSetCalls   == 2   \* setCredentials calls in one run
MaxFetchCalls == 2   \* direct fetchFromEndpoint calls in one run
MaxBulkCalls  == 2   \* fetchAllEndpoints calls in one run of SpecOverlap
MaxListeners  == 1   \* callbacks that may be registered in one run of SpecBulk
MaxSubscriptions == 2 \* callbacks that may be registered in one run of SpecListen
MaxDbOps      == 3   \* direct store operations in one run of SpecDb

\* Program constants
TOKEN_LIFETIME == 3600000
TOKEN_MARGIN   == 60000
StartTime      == 9

\* JavaScript undefined (an absent optional field) and null, per type of the
\* value they stand in for
Undefined    == [undefined |-> TRUE]
Null         == [null |-> TRUE]
UndefinedStr == "undefined"
NullStr      == "null"
UndefinedNum == -1
Placeholder == "********"

----------------------------------------------------------------------------
\* The endpoint catalog

API_ENDPOINTS ==
  <<[id |-> "listings-items", name |-> "Listings Items"],
    [id |-> "orders",         name |-> "Orders"],
    [id |-> "finances",       name |-> "Finances"],
    [id |-> "inventory",      name |-> "Inventory"]>>

Catalog     == SubSeq(API_ENDPOINTS, 1, CatalogSize)
EndpointIds == {API_ENDPOINTS[i].id : i \in 1..Len(API_ENDPOINTS)}
CatalogIds  == {Catalog[i].id : i \in 1..Len(Catalog)}

\* UTF-16 code units of the endpoint ids (IndexedDB orders string keys by them)
CharCodes(e) ==
  CASE e = "listings-items" ->
         <<108,105,115,116,105,110,103,115,45,105,116,101,109,115>>
    [] e = "orders"    -> <<111,114,100,101,114,115>>
    [] e = "finances"  -> <<102,105,110,97,110,99,101,115>>
    [] e = "inventory" -> <<105,110,118,101,110,116,111,114,121>>

RECURSIVE Digits(_)
\* code units of the decimal representation of a non-negative integer
Digits(n) == IF n < 10 THEN <<48 + n>>
             ELSE Digits(n \div 10) \o <<48 + (n % 10)>>

\* `${response.endpointId}-${response.timestamp}`
ResponseId(e, ts) == e \o "-" \o ToString(ts)
ResponseKeyCodes(e, ts) == CharCodes(e) \o <<45>> \o Digits(ts)

\* `snapshot-${Date.now()}`
SnapshotId(ts) == "snapshot-" \o ToString(ts)

\* string key order of IndexedDB: lexicographic on code units
KeyLess(a, b) ==
  \/ /\ Len(a) < Len(b)
     /\ \A i \in 1..Len(a) : a[i] = b[i]
  \/ \E i \in 1..(IF Len(a) < Len(b) THEN Len(a) ELSE Len(b)) :
        /\ a[i] < b[i]
        /\ \A j \in 1..(i-1) : a[j] = b[j]

----------------------------------------------------------------------------
\* DatabaseService: pure parts

RecKey(r)  == ResponseKeyCodes(r.endpointId, r.timestamp)
SnapKey(s) == <<115,110,97,112,115,104,111,116,45>> \o Digits(s.idTime)

RECURSIVE InKeyOrder(_, _)
\* db.getAll(store): the records of a store in primary-key order
InKeyOrder(S, key) ==
  IF S = {} THEN <<>>
  ELSE LET m == CHOOSE x \in S : \A y \in S \ {x} : KeyLess(key[x], key[y])
       IN  <<m>> \o InKeyOrder(S \ {m}, key)

GetAllResponses(store) == InKeyOrder(store, [r \in store |-> RecKey(r)])

\* db.getAllFromIndex('responses', 'by-endpoint', endpointId)
GetResponsesByEndpoint(store, e) ==
  SelectSeq(GetAllResponses(store), LAMBDA r : r.endpointId = e)

\* PutResponse with the key left to the store's key generator
PutResponse_AutoKey(store, r) ==
  store \cup {[id |-> ToString(Cardinality(store) + 1),
               endpointId |-> r.endpointId, data |-> r.data,
               timestamp |-> r.timestamp, success |-> r.success,
               error |-> r.error]}

\* db.put('responses', {...response, id}) : upsert under the key path id
PutResponse(store, r) ==
  LET stored == [id |-> ResponseId(r.endpointId, r.timestamp),
                 endpointId |-> r.endpointId, data |-> r.data,
                 timestamp |-> r.timestamp, success |-> r.success,
                 error |-> r.error]
  IN  {s \in store : s.id # stored.id} \cup {stored}

RECURSIVE InsertDesc(_, _)
\* one insertion of a stable sort by (a, b) => b.timestamp - a.timestamp
InsertDesc(sorted, r) ==
  IF sorted = <<>> THEN <<r>>
  ELSE IF Head(sorted).timestamp >= r.timestamp
       THEN <<Head(sorted)>> \o InsertDesc(Tail(sorted), r)
       ELSE <<r>> \o sorted

RECURSIVE SortByTimestampDesc(_)
SortByTimestampDesc(s) ==
  IF s = <<>> THEN <<>>
  ELSE InsertDesc(SortByTimestampDesc(SubSeq(s, 1, Len(s) - 1)), s[Len(s)])

\* GetLatestResponseByEndpoint without the sort
GetLatestResponseByEndpoint_Unsorted(store, e) ==
  LET rs == GetResponsesByEndpoint(store, e)
  IN  IF Len(rs) = 0 THEN Undefined ELSE rs[1]

\* getLatestResponseByEndpoint: the first of the endpoint's records sorted by
\* timestamp, descending
GetLatestResponseByEndpoint(store, e) ==
  LET rs == GetResponsesByEndpoint(store, e)
  IN  IF Len(rs) = 0 THEN Undefined ELSE SortByTimestampDesc(rs)[1]

RECURSIVE LatestFold_LastWins(_, _)
\* LatestFold without the timestamp comparison
LatestFold_LastWins(acc, rs) ==
  IF rs = <<>> THEN acc
  ELSE LET r   == Head(rs)
           pos == {i \in 1..Len(acc) : acc[i].endpointId = r.endpointId}
       IN  IF pos = {} THEN LatestFold_LastWins(Append(acc, r), Tail(rs))
           ELSE LatestFold_LastWins(
                  [acc EXCEPT ![CHOOSE k \in pos : TRUE] = r], Tail(rs))

RECURSIVE LatestFold(_, _)
\* the forEach of getLatestResponses over the records seen so far; the
\* result is the object latestByEndpoint as its values in insertion order
LatestFold(acc, rs) ==
  IF rs = <<>> THEN acc
  ELSE LET r   == Head(rs)
           pos == {i \in 1..Len(acc) : acc[i].endpointId = r.endpointId}
       IN  IF pos = {} THEN LatestFold(Append(acc, r), Tail(rs))
           ELSE LET i == CHOOSE k \in pos : TRUE
                IN  IF r.timestamp > acc[i].timestamp
                    THEN LatestFold([acc EXCEPT ![i] = r], Tail(rs))
                    ELSE LatestFold(acc, Tail(rs))

GetLatestResponses(store) == LatestFold(<<>>, GetAllResponses(store))

\* lookup latestByEndpoint[endpointId]
LatestOf(store, e) ==
  LET l   == GetLatestResponses(store)
      pos == {i \in 1..Len(l) : l[i].endpointId = e}
  IN  IF pos = {} THEN Undefined ELSE l[CHOOSE i \in pos : TRUE]

\* NewSnapshot listing every stored response instead of the latest ones
NewSnapshot_AllIds(store, idTime, date) ==
  LET l == GetAllResponses(store)
  IN  [id |-> SnapshotId(idTime), idTime |-> idTime, date |-> date,
       responseIds |-> [i \in 1..Len(l) |-> l[i].id]]

\* the snapshot object built by createHistoricalSnapshot; idTime and date are
\* the two Date.now() reads
NewSnapshot(store, idTime, date) ==
  LET l == GetLatestResponses(store)
  IN  [id |-> SnapshotId(idTime), idTime |-> idTime, date |-> date,
       responseIds |-> [i \in 1..Len(l) |-> l[i].id]]

PutSnapshot(hist, s) == {h \in hist : h.id # s.id} \cup {s}

RECURSIVE InDateOrder(_)
\* db.getAllFromIndex('historical', 'by-date'): the snapshots in the order of
\* the index, by date and, for equal dates, by primary key
InDateOrder(H) ==
  IF H = {} THEN <<>>
  ELSE LET m == CHOOSE x \in H : \A y \in H \ {x} :
                  \/ x.date < y.date
                  \/ x.date = y.date /\ KeyLess(SnapKey(x), SnapKey(y))
       IN  <<m>> \o InDateOrder(H \ {m})

RECURSIVE InsertDateDesc(_, _)
\* one insertion of a stable sort by (a, b) => b.date - a.date
InsertDateDesc(sorted, h) ==
  IF sorted = <<>> THEN <<h>>
  ELSE IF Head(sorted).date >= h.date
       THEN <<Head(sorted)>> \o InsertDateDesc(Tail(sorted), h)
       ELSE <<h>> \o sorted

RECURSIVE SortByDateDesc(_)
SortByDateDesc(s) ==
  IF s = <<>> THEN <<>>
  ELSE InsertDateDesc(SortByDateDesc(SubSeq(s, 1, Len(s) - 1)), s[Len(s)])

\* GetHistoricalSnapshots without the sort: the order of the index
GetHistoricalSnapshots_IndexOrder(hist) == InDateOrder(hist)

\* getHistoricalSnapshots
GetHistoricalSnapshots(hist) == SortByDateDesc(InDateOrder(hist))

RECURSIVE SnapshotFold_NoCheck(_, _, _)
\* SnapshotFold entering the result of db.get whether or not it found a record
SnapshotFold_NoCheck(acc, ids, store) ==
  IF ids = <<>> THEN acc
  ELSE LET found == {r \in store : r.id = Head(ids)}
       IN  IF found = {}
           THEN SnapshotFold_NoCheck(
                  [x \in (DOMAIN acc) \cup {UndefinedStr} |->
                     IF x = UndefinedStr THEN Undefined ELSE acc[x]],
                  Tail(ids), store)
           ELSE LET r == CHOOSE x \in found : TRUE
                IN  SnapshotFold_NoCheck(
                      [x \in (DOMAIN acc) \cup {r.endpointId} |->
                         IF x = r.endpointId THEN r ELSE acc[x]],
                      Tail(ids), store)

RECURSIVE SnapshotFold(_, _, _)
\* the loop of getSnapshotResponses over the ids still to resolve; acc is the
\* object responses
SnapshotFold(acc, ids, store) ==
  IF ids = <<>> THEN acc
  ELSE LET found == {r \in store : r.id = Head(ids)}
       IN  IF found = {} THEN SnapshotFold(acc, Tail(ids), store)
           ELSE LET r == CHOOSE x \in found : TRUE
                IN  SnapshotFold(
                      [x \in (DOMAIN acc) \cup {r.endpointId} |->
                         IF x = r.endpointId THEN r ELSE acc[x]],
                      Tail(ids), store)

\* getSnapshotResponses(snapshot)
GetSnapshotResponses(store, snapshot) ==
  SnapshotFold(<<>>, snapshot.responseIds, store)

\* ExportData without the redaction of clientSecret
ExportData_LeakSecret(creds, store, hist, login) ==
  [credentials |-> IF creds # Undefined
                   THEN [clientId     |-> creds.clientId,
                         clientSecret |-> creds.clientSecret,
                         refreshToken |-> Placeholder]
                   ELSE Null,
   responses   |-> GetAllResponses(store),
   snapshots   |-> InKeyOrder(hist, [h \in hist |-> SnapKey(h)]),
   lastLogin   |-> login]

\* the exportData object of exportAllData
ExportData(creds, store, hist, login) ==
  [credentials |-> IF creds # Undefined
                   THEN [clientId     |-> creds.clientId,
                         clientSecret |-> Placeholder,
                         refreshToken |-> Placeholder]
                   ELSE Null,
   responses   |-> GetAllResponses(store),
   snapshots   |-> InKeyOrder(hist, [h \in hist |-> SnapKey(h)]),
   lastLogin   |-> login]

----------------------------------------------------------------------------
\* AmazonService: values

CredStrings == {"", "a", "b"}
\* the credentials a user may submit
CredInputs  == {c \in [clientId : CredStrings, clientSecret : {"", "a"},
                       refreshToken : {"", "b"}] :
                  c.clientId = "b" => (c.clientSecret # "" /\ c.refreshToken # "")}

\* ValidateCredentials without the refreshToken operand
ValidateCredentials_NoToken(c) ==
  c.clientId # "" /\ c.clientSecret # ""

\* !!(credentials.clientId && credentials.clientSecret && credentials.refreshToken)
ValidateCredentials(c) ==
  c.clientId # "" /\ c.clientSecret # "" /\ c.refreshToken # ""

HasCredentials == credentials # Null

CredentialsNotSet == "Credentials not set"
StorageFailure    == "The transaction was aborted"  \* message of a failed put

MockVariants == {1}   \* outcomes of the Math.random() calls in the payload
GenerateMockData(e, v) == [mock |-> e, variant |-> v]

SuccessResponse(e, v, ts) ==
  [endpointId |-> e, data |-> GenerateMockData(e, v), timestamp |-> ts,
   success |-> TRUE, error |-> UndefinedStr]

ErrorResponse(e, msg, ts) ==
  [endpointId |-> e, data |-> Null, timestamp |-> ts,
   success |-> FALSE, error |-> msg]

IdleStatus ==
  [currentEndpoint |-> "", progress |-> 0, total |-> 0, status |-> "idle",
   message |-> UndefinedStr]
StartingStatus(n) ==
  [currentEndpoint |-> "", progress |-> 0, total |-> n, status |-> "running",
   message |-> "Starting data extraction..."]
\* RunningStatus counting the endpoints from one
RunningStatus_OneBased(i, n, name) ==
  [currentEndpoint |-> name, progress |-> i + 1, total |-> n,
   status |-> "running", message |-> "Fetching data from " \o name \o "..."]
RunningStatus(i, n, name) ==
  [currentEndpoint |-> name, progress |-> i, total |-> n, status |-> "running",
   message |-> "Fetching data from " \o name \o "..."]
\* CompletedStatus reporting the end of the call as an error
CompletedStatus_Error(n) ==
  [currentEndpoint |-> "", progress |-> n, total |-> n, status |-> "error",
   message |-> "All data has been extracted"]
CompletedStatus(n) ==
  [currentEndpoint |-> "", progress |-> n, total |-> n, status |-> "completed",
   message |-> "All data has been extracted"]

SetIds     == 1..MaxSetCalls
FetchIds   == 1..MaxFetchCalls
BulkIds    == 1..MaxBulkCalls
Listeners  == 1..MaxListeners
Subscribers == 1..MaxSubscriptions
\* a fetchFromEndpoint activation: called directly, or by a fetchAllEndpoints
Slots      == {<<"direct", f>> : f \in FetchIds} \cup {<<"bulk", b>> : b \in BulkIds}

Registered == {progressListeners[i] : i \in 1..Len(progressListeners)}

\* notifyProgressListeners: every registered callback is invoked with status
Notify(del, status) ==
  [l \in DOMAIN del |-> IF l \in Registered THEN Append(del[l], status)
                                             ELSE del[l]]

\* token is the cached access token at the moment the call returned
IdleSet   == [pc |-> "idle", arg |-> Undefined, put |-> "none",
              result |-> FALSE, token |-> NullStr]
\* reused tells, while the request is awaited, whether getAccessToken
\* returned the token from the cache
IdleFetch == [pc |-> "idle", endpoint |-> UndefinedStr, noCreds |-> FALSE,
              reused |-> FALSE, rec |-> Undefined, result |-> Undefined]
\* attempted, emitted, audience, mark and overlapped record the history of
\* the call: the endpoints it fetched, the statuses it passed to
\* updateProgress, the callbacks registered since it started, the length of
\* their logs at its start, whether another call was active during it;
\* snapshots tells whether the call is made in the revision of the service
\* whose fetchAllEndpoints ends with createHistoricalSnapshot
IdleBulk  == [pc |-> "idle", i |-> 0, results |-> <<>>, attempted |-> <<>>,
              emitted |-> <<>>, audience |-> {}, mark |-> <<>>,
              overlapped |-> FALSE, snapshots |-> FALSE]

\* where a call stands after its completed event: it returns, or, in the
\* revision with the snapshot, awaits createHistoricalSnapshot
AfterCompleted(c) == IF c.snapshots THEN "snapshotting" ELSE "done"

\* the Index page before it is mounted; bulk is the fetchAllEndpoints call
\* its handleLogin has made
IdleIndex == [pc |-> "unmounted", bulk |-> 0]
\* the DashboardPage before it is mounted: listener is the callback of its
\* progress effect, started the fetchAllEndpoints calls made by
\* handleFetchAllData
IdleDashboard == [mounted |-> FALSE, listener |-> 0, isFetching |-> FALSE,
                  started |-> {}]

\* the callback the DashboardPage registers, invoked with status
DashboardCallback(d, status) ==
  IF d.mounted /\ status.status = "completed"
  THEN [d EXCEPT !.isFetching = FALSE]
  ELSE d

Init ==
  /\ now = StartTime
  /\ ticks = 0
  /\ dbCredentials \in {Undefined,
                        [clientId |-> "a", clientSecret |-> "a", refreshToken |-> "b"]}
  /\ responses = {}
  /\ historical = {}
  /\ lastLogin = UndefinedNum
  /\ credentials = Null
  /\ accessToken = NullStr
  /\ tokenExpiration = 0
  /\ progressStatus = IdleStatus
  /\ progressListeners = <<>>
  /\ delivered = <<>>
  /\ unsubscribed = {}
  /\ setCalls = [c \in SetIds |-> IdleSet]
  /\ fetchCalls = [s \in Slots |-> IdleFetch]
  /\ bulkCalls = [b \in BulkIds |-> IdleBulk]
  /\ initPc = "loading"
  /\ index = IdleIndex
  /\ dashboard = IdleDashboard
  /\ exported = Undefined
  /\ lastOp = [op |-> "none", n |-> 0]

----------------------------------------------------------------------------
\* The clock

TickSteps == {1, TOKEN_LIFETIME - TOKEN_MARGIN}

Tick(d) ==
  /\ ticks < MaxTicks
  /\ now' = now + d
  /\ ticks' = ticks + 1
  /\ UNCHANGED <<dbVars, svcVars, exported, lastOp, uiVars>>

----------------------------------------------------------------------------
\* AmazonService: credentials

\* InitializeCredentials without the assignment of the stored credentials
InitializeCredentials_NoLoad(ok) ==
  /\ initPc = "loading"
  /\ initPc' = IF ~ok THEN "failed"
               ELSE IF dbCredentials # Undefined THEN "found" ELSE "empty"
  /\ UNCHANGED <<now, ticks, dbVars, credentials, accessToken, tokenExpiration,
                 progressStatus, progressListeners, delivered, setCalls,
                 fetchCalls, bulkCalls, exported, lastOp, unsubscribed,
                 uiVars>>

\* constructor -> initializeCredentials, after its await of getCredentials;
\* ok = FALSE is a rejected get, which the catch only logs.  The read of the
\* store and the assignment are one step: the assignment runs in the
\* microtasks of the read's success event, and IndexedDB starts a put
\* created after the read only when the read's transaction has finished
InitializeCredentials(ok) ==
  /\ initPc = "loading"
  /\ initPc' = IF ~ok THEN "failed"
               ELSE IF dbCredentials # Undefined THEN "found" ELSE "empty"
  /\ credentials' = IF ok /\ dbCredentials # Undefined THEN dbCredentials
                    ELSE credentials
  /\ UNCHANGED <<now, ticks, dbVars, accessToken, tokenExpiration,
                 progressStatus, progressListeners, delivered, setCalls,
                 fetchCalls, bulkCalls, exported, lastOp, unsubscribed,
                 uiVars>>

\* setCredentials(arg) up to the timer awaited in validateCredentials
SetCredentials(c, arg) ==
  /\ setCalls[c].pc = "idle"
  /\ \A k \in SetIds : k < c => setCalls[k].pc # "idle"
  /\ setCalls' = [setCalls EXCEPT ![c] = [IdleSet EXCEPT !.pc = "validating",
                                                         !.arg = arg]]
  /\ UNCHANGED <<now, ticks, dbVars, credentials, accessToken, tokenExpiration,
                 progressStatus, progressListeners, delivered, fetchCalls,
                 bulkCalls, initPc, exported, lastOp, unsubscribed, uiVars>>

\* validateCredentials returns; a valid value goes on to saveCredentials
SetCredentialsValidated(c) ==
  /\ setCalls[c].pc = "validating"
  /\ setCalls' = [setCalls EXCEPT ![c] =
        IF ValidateCredentials(@.arg)
        THEN [@ EXCEPT !.pc = "saving"]
        ELSE [@ EXCEPT !.pc = "done", !.result = FALSE,
                       !.token = accessToken]]
  /\ UNCHANGED <<now, ticks, dbVars, credentials, accessToken, tokenExpiration,
                 progressStatus, progressListeners, delivered, fetchCalls,
                 bulkCalls, initPc, exported, lastOp, unsubscribed, uiVars>>

\* SetCredentialsSaved without the assignment to this.credentials
SetCredentialsSaved_NoAssign(c, ok) ==
  /\ setCalls[c].pc = "saving"
  /\ setCalls' = [setCalls EXCEPT ![c] =
                    [@ EXCEPT !.pc = "done", !.result = ok,
                              !.put = IF ok THEN "ok" ELSE "failed",
                              !.token = accessToken]]
  /\ dbCredentials' = IF ok THEN setCalls[c].arg ELSE dbCredentials
  /\ UNCHANGED <<now, ticks, responses, historical, lastLogin, credentials,
                 accessToken, tokenExpiration, progressStatus,
                 progressListeners, delivered, fetchCalls, bulkCalls, initPc,
                 exported, lastOp, unsubscribed, uiVars>>

\* SetCredentialsSaved assigning this.credentials whether or not the put
\* succeeded
SetCredentialsSaved_AssignAnyway(c, ok) ==
  /\ setCalls[c].pc = "saving"
  /\ setCalls' = [setCalls EXCEPT ![c] =
                    [@ EXCEPT !.pc = "done", !.result = ok,
                              !.put = IF ok THEN "ok" ELSE "failed",
                              !.token = accessToken]]
  /\ dbCredentials' = IF ok THEN setCalls[c].arg ELSE dbCredentials
  /\ credentials'   = setCalls[c].arg
  /\ UNCHANGED <<now, ticks, responses, historical, lastLogin, accessToken,
                 tokenExpiration, progressStatus, progressListeners, delivered,
                 fetchCalls, bulkCalls, initPc, exported, lastOp, unsubscribed,
                 uiVars>>

\* SetCredentialsSaved dropping the cached token with the old credentials
SetCredentialsSaved_ResetToken(c, ok) ==
  /\ setCalls[c].pc = "saving"
  /\ setCalls' = [setCalls EXCEPT ![c] =
                    [@ EXCEPT !.pc = "done", !.result = ok,
                              !.put = IF ok THEN "ok" ELSE "failed",
                              !.token = accessToken]]
  /\ dbCredentials' = IF ok THEN setCalls[c].arg ELSE dbCredentials
  /\ credentials'   = IF ok THEN setCalls[c].arg ELSE credentials
  /\ accessToken'   = IF ok THEN NullStr ELSE accessToken
  /\ tokenExpiration' = IF ok THEN 0 ELSE tokenExpiration
  /\ UNCHANGED <<now, ticks, responses, historical, lastLogin,
                 progressStatus, progressListeners, delivered,
                 fetchCalls, bulkCalls, initPc, exported, lastOp, unsubscribed,
                 uiVars>>

\* db.put('credentials', ...) settles; ok = FALSE is a rejected put
SetCredentialsSaved(c, ok) ==
  /\ setCalls[c].pc = "saving"
  /\ setCalls' = [setCalls EXCEPT ![c] =
                    [@ EXCEPT !.pc = "done", !.result = ok,
                              !.put = IF ok THEN "ok" ELSE "failed",
                              !.token = accessToken]]
  /\ dbCredentials' = IF ok THEN setCalls[c].arg ELSE dbCredentials
  /\ credentials'   = IF ok THEN setCalls[c].arg ELSE credentials
  /\ UNCHANGED <<now, ticks, responses, historical, lastLogin, accessToken,
                 tokenExpiration, progressStatus, progressListeners, delivered,
                 fetchCalls, bulkCalls, initPc, exported, lastOp, unsubscribed,
                 uiVars>>

----------------------------------------------------------------------------
\* AmazonService: progress listeners

\* onProgressUpdate(callback), callback being a function not registered before
\* (every mount of a page creates its own)
OnProgressUpdate(l) ==
  /\ l = Len(delivered) + 1
  /\ progressListeners' = Append(progressListeners, l)
  /\ delivered' = Append(delivered, <<>>)
  /\ UNCHANGED <<now, ticks, dbVars, credentials, accessToken, tokenExpiration,
                 progressStatus, setCalls, fetchCalls, bulkCalls,
                 initPc, exported, lastOp, unsubscribed, uiVars>>

\* Unsubscribe leaving the array of listeners as it is
Unsubscribe_NoFilter(l) ==
  /\ l \in Registered
  /\ l \notin unsubscribed
  /\ unsubscribed' = unsubscribed \cup {l}
  /\ UNCHANGED <<now, ticks, dbVars, credentials, accessToken, tokenExpiration,
                 progressStatus, progressListeners, delivered, setCalls,
                 fetchCalls, bulkCalls, initPc, exported, lastOp, uiVars>>

\* the function returned by onProgressUpdate
Unsubscribe(l) ==
  /\ l \in Registered
  /\ progressListeners' = SelectSeq(progressListeners, LAMBDA x : x # l)
  /\ bulkCalls' = [b \in BulkIds |->
                     [bulkCalls[b] EXCEPT !.audience = @ \ {l}]]
  /\ unsubscribed' = unsubscribed \cup {l}
  /\ UNCHANGED <<now, ticks, dbVars, credentials, accessToken, tokenExpiration,
                 progressStatus, delivered, setCalls, fetchCalls, initPc,
                 exported, lastOp, uiVars>>

----------------------------------------------------------------------------
\* AmazonService: fetchFromEndpoint

\* TokenIsFresh without the margin before the expiry
TokenIsFresh_NoMargin == accessToken # NullStr /\ now < tokenExpiration

\* getAccessToken returns the cached token
TokenIsFresh == accessToken # NullStr /\ now < tokenExpiration - TOKEN_MARGIN

\* the synchronous start of fetchFromEndpoint(endpoint): the credentials
\* check, then getAccessToken up to its first await
BeginFetch(e) ==
  IF credentials = Null
  THEN [IdleFetch EXCEPT !.pc = "savingErr", !.endpoint = e, !.noCreds = TRUE,
                         !.rec = ErrorResponse(e, CredentialsNotSet, now)]
  ELSE IF TokenIsFresh
       THEN [IdleFetch EXCEPT !.pc = "delay", !.endpoint = e,
                              !.reused = TRUE]
       ELSE [IdleFetch EXCEPT !.pc = "minting", !.endpoint = e]

\* NewResults without the entry made in the catch
NewResults_NoCatchEntry(results, e, fin) ==
  IF fin.pc = "returned"
  THEN [x \in (DOMAIN results) \cup {e} |->
          IF x = e THEN fin.result ELSE results[x]]
  ELSE results

\* results[endpoint.id] after the fetch of e ended as fin: the response it
\* returned, or the record the catch builds when it rejected
NewResults(results, e, fin) ==
  [x \in (DOMAIN results) \cup {e} |->
     IF x = e
     THEN IF fin.pc = "returned" THEN fin.result
          ELSE ErrorResponse(e, StorageFailure, now)
     ELSE results[x]]

\* BulkAdvance starting the next fetch without entering the record of the
\* one before
BulkAdvance_NoWait(b, res, fin) ==
  LET n    == Len(Catalog)
      next == bulkCalls[b].i + 1
  IN  IF next < n
      THEN /\ progressStatus' = RunningStatus(next, n, Catalog[next + 1].name)
           /\ delivered' = Notify(delivered, progressStatus')
           /\ dashboard' = DashboardCallback(dashboard, progressStatus')
           /\ bulkCalls' = [bulkCalls EXCEPT ![b] =
                [@ EXCEPT !.i = next,
                          !.attempted = Append(@, Catalog[next + 1].id),
                          !.emitted = Append(@, progressStatus')]]
           /\ fetchCalls' = [fetchCalls EXCEPT ![<<"bulk", b>>] =
                               BeginFetch(Catalog[next + 1].id)]
      ELSE /\ progressStatus' = CompletedStatus(n)
           /\ delivered' = Notify(delivered, progressStatus')
           /\ dashboard' = DashboardCallback(dashboard, progressStatus')
           /\ bulkCalls' = [bulkCalls EXCEPT ![b] =
                [@ EXCEPT !.pc = "done", !.i = next, !.results = res,
                          !.emitted = Append(@, progressStatus')]]
           /\ fetchCalls' = [fetchCalls EXCEPT ![<<"bulk", b>>] = fin]

\* the loop of fetchAllEndpoints goes on with results res: the next iteration
\* up to the first await of its fetchFromEndpoint, or the completed event
BulkAdvance(b, res, fin) ==
  LET n    == Len(Catalog)
      next == bulkCalls[b].i + 1
  IN  IF next < n
      THEN /\ progressStatus' = RunningStatus(next, n, Catalog[next + 1].name)
           /\ delivered' = Notify(delivered, progressStatus')
           /\ dashboard' = DashboardCallback(dashboard, progressStatus')
           /\ bulkCalls' = [bulkCalls EXCEPT ![b] =
                [@ EXCEPT !.i = next, !.results = res,
                          !.attempted = Append(@, Catalog[next + 1].id),
                          !.emitted = Append(@, progressStatus')]]
           /\ fetchCalls' = [fetchCalls EXCEPT ![<<"bulk", b>>] =
                               BeginFetch(Catalog[next + 1].id)]
      ELSE /\ progressStatus' = CompletedStatus(n)
           /\ delivered' = Notify(delivered, progressStatus')
           /\ dashboard' = DashboardCallback(dashboard, progressStatus')
           /\ bulkCalls' = [bulkCalls EXCEPT ![b] =
                [@ EXCEPT !.pc = AfterCompleted(bulkCalls[b]), !.i = next,
                          !.results = res,
                          !.emitted = Append(@, progressStatus')]]
           /\ fetchCalls' = [fetchCalls EXCEPT ![<<"bulk", b>>] = fin]

\* BulkContinue without the try/catch: a rejected fetch rejects the call
BulkContinue_NoCatch(b, fin) ==
  IF fin.pc = "rejected"
  THEN /\ bulkCalls' = [bulkCalls EXCEPT ![b] = [@ EXCEPT !.pc = "rejected"]]
       /\ fetchCalls' = [fetchCalls EXCEPT ![<<"bulk", b>>] = fin]
       /\ UNCHANGED <<progressStatus, delivered, dashboard>>
  ELSE BulkAdvance(b, NewResults(bulkCalls[b].results,
                                 Catalog[bulkCalls[b].i + 1].id, fin), fin)

\* the try/catch around the fetch of endpoint i: however it ended, its
\* record is entered and the loop goes on
BulkContinue(b, fin) ==
  BulkAdvance(b, NewResults(bulkCalls[b].results,
                            Catalog[bulkCalls[b].i + 1].id, fin), fin)

\* a fetchFromEndpoint activation ends as fin and its caller goes on
Finish(s, fin) ==
  IF s[1] = "direct"
  THEN /\ fetchCalls' = [fetchCalls EXCEPT ![s] = fin]
       /\ UNCHANGED <<progressStatus, delivered, bulkCalls, dashboard>>
  ELSE BulkContinue(s[2], fin)

\* a direct call fetchFromEndpoint(endpoint), up to its first await
FetchFromEndpoint(f, e) ==
  /\ fetchCalls[<<"direct", f>>].pc = "idle"
  /\ \A k \in FetchIds : k < f => fetchCalls[<<"direct", k>>].pc # "idle"
  /\ fetchCalls' = [fetchCalls EXCEPT ![<<"direct", f>>] = BeginFetch(e)]
  /\ UNCHANGED <<now, ticks, dbVars, credentials, accessToken, tokenExpiration,
                 progressStatus, progressListeners, delivered, setCalls,
                 bulkCalls, initPc, exported, lastOp, unsubscribed, uiVars>>

\* getAccessToken after its timer: a new token is minted
FetchTokenMinted(s) ==
  /\ fetchCalls[s].pc = "minting"
  /\ accessToken' = "simulated-access-token-" \o ToString(now)
  /\ tokenExpiration' = now + TOKEN_LIFETIME
  /\ fetchCalls' = [fetchCalls EXCEPT ![s] = [@ EXCEPT !.pc = "delay"]]
  /\ UNCHANGED <<now, ticks, dbVars, credentials, progressStatus,
                 progressListeners, delivered, setCalls, bulkCalls, initPc,
                 exported, lastOp, unsubscribed, uiVars>>

\* after the request timer: the response is built and saveResponse is called
FetchResponded(s, v) ==
  /\ fetchCalls[s].pc = "delay"
  /\ fetchCalls' = [fetchCalls EXCEPT ![s] =
       [@ EXCEPT !.pc = "saving", !.reused = FALSE,
                 !.rec = SuccessResponse(fetchCalls[s].endpoint, v, now)]]
  /\ UNCHANGED <<now, ticks, dbVars, credentials, accessToken, tokenExpiration,
                 progressStatus, progressListeners, delivered, setCalls,
                 bulkCalls, initPc, exported, lastOp, unsubscribed, uiVars>>

\* FetchPutDone returning the response without saving it
FetchPutDone_NoSave(s, ok) ==
  /\ fetchCalls[s].pc = "saving"
  /\ responses' = responses
  /\ Finish(s, [fetchCalls[s] EXCEPT !.pc = "returned",
                                     !.result = fetchCalls[s].rec])
  /\ UNCHANGED <<now, ticks, dbCredentials, historical, lastLogin, credentials,
                 accessToken, tokenExpiration, progressListeners, setCalls,
                 initPc, exported, lastOp, unsubscribed, index>>

\* saveResponse(response) settles: the call returns the response, or the
\* catch builds the error response and calls saveResponse again
FetchPutDone(s, ok) ==
  /\ fetchCalls[s].pc = "saving"
  /\ IF ok
     THEN /\ responses' = PutResponse(responses, fetchCalls[s].rec)
          /\ Finish(s, [fetchCalls[s] EXCEPT !.pc = "returned", !.result = fetchCalls[s].rec])
     ELSE /\ responses' = responses
          /\ fetchCalls' = [fetchCalls EXCEPT ![s] =
               [@ EXCEPT !.pc = "savingErr",
                         !.rec = ErrorResponse(fetchCalls[s].endpoint, StorageFailure, now)]]
          /\ UNCHANGED <<progressStatus, delivered, bulkCalls, dashboard>>
  /\ UNCHANGED <<now, ticks, dbCredentials, historical, lastLogin, credentials,
                 accessToken, tokenExpiration, progressListeners, setCalls,
                 initPc, exported, lastOp, unsubscribed, index>>

\* FetchErrorPutDone returning the error response without saving it
FetchErrorPutDone_NoSave(s, ok) ==
  /\ fetchCalls[s].pc = "savingErr"
  /\ responses' = responses
  /\ Finish(s, [fetchCalls[s] EXCEPT !.pc = "returned",
                                     !.result = fetchCalls[s].rec])
  /\ UNCHANGED <<now, ticks, dbCredentials, historical, lastLogin, credentials,
                 accessToken, tokenExpiration, progressListeners, setCalls,
                 initPc, exported, lastOp, unsubscribed, index>>

\* saveResponse(errorResponse) settles: the call returns the error response,
\* or rejects with the storage error
FetchErrorPutDone(s, ok) ==
  /\ fetchCalls[s].pc = "savingErr"
  /\ IF ok
     THEN /\ responses' = PutResponse(responses, fetchCalls[s].rec)
          /\ Finish(s, [fetchCalls[s] EXCEPT !.pc = "returned", !.result = fetchCalls[s].rec])
     ELSE /\ responses' = responses
          /\ Finish(s, [fetchCalls[s] EXCEPT !.pc = "rejected"])
  /\ UNCHANGED <<now, ticks, dbCredentials, historical, lastLogin, credentials,
                 accessToken, tokenExpiration, progressListeners, setCalls,
                 initPc, exported, lastOp, unsubscribed, index>>

----------------------------------------------------------------------------
\* AmazonService: fetchAllEndpoints

Active(b) == bulkCalls[b].pc \in {"importing", "fetching", "snapshotting"}

\* fetchAllEndpoints(), up to the await of the dynamic import
FetchAllEndpoints(b) ==
  /\ bulkCalls[b].pc = "idle"
  /\ \A k \in BulkIds : k < b => bulkCalls[k].pc # "idle"
  /\ bulkCalls' = [k \in BulkIds |->
       IF k = b
       THEN [IdleBulk EXCEPT !.pc = "importing",
                             !.overlapped = \E j \in BulkIds : Active(j)]
       ELSE IF Active(k) THEN [bulkCalls[k] EXCEPT !.overlapped = TRUE]
            ELSE bulkCalls[k]]
  /\ UNCHANGED <<now, ticks, dbVars, credentials, accessToken, tokenExpiration,
                 progressStatus, progressListeners, delivered, setCalls,
                 fetchCalls, initPc, exported, lastOp, unsubscribed, uiVars>>

\* fetchAllEndpoints() of the revision that ends with
\* createHistoricalSnapshot, up to the await of the dynamic import
FetchAllEndpointsWithSnapshot(b) ==
  /\ bulkCalls[b].pc = "idle"
  /\ \A k \in BulkIds : k < b => bulkCalls[k].pc # "idle"
  /\ bulkCalls' = [k \in BulkIds |->
       IF k = b
       THEN [IdleBulk EXCEPT !.pc = "importing", !.snapshots = TRUE,
                             !.overlapped = \E j \in BulkIds : Active(j)]
       ELSE IF Active(k) THEN [bulkCalls[k] EXCEPT !.overlapped = TRUE]
            ELSE bulkCalls[k]]
  /\ UNCHANGED <<now, ticks, dbVars, credentials, accessToken, tokenExpiration,
                 progressStatus, progressListeners, delivered, setCalls,
                 fetchCalls, initPc, exported, lastOp, unsubscribed, uiVars>>

\* BulkStart without the starting event
BulkStart_NoStartingEvent(b) ==
  LET n    == Len(Catalog)
      base == [bulkCalls[b] EXCEPT !.audience = Registered,
                                   !.mark = [l \in DOMAIN delivered |-> Len(delivered[l])]]
  IN  /\ bulkCalls[b].pc = "importing"
      /\ IF n = 0
         THEN /\ progressStatus' = CompletedStatus(n)
              /\ delivered' = Notify(delivered, progressStatus')
              /\ dashboard' = DashboardCallback(dashboard, progressStatus')
              /\ bulkCalls' = [bulkCalls EXCEPT ![b] =
                   [base EXCEPT !.pc = "done", !.emitted = <<progressStatus'>>]]
              /\ fetchCalls' = fetchCalls
         ELSE /\ progressStatus' = RunningStatus(0, n, Catalog[1].name)
              /\ delivered' = Notify(delivered, progressStatus')
              /\ dashboard' = DashboardCallback(dashboard, progressStatus')
              /\ bulkCalls' = [bulkCalls EXCEPT ![b] =
                   [base EXCEPT !.pc = "fetching",
                                !.attempted = <<Catalog[1].id>>,
                                !.emitted = <<progressStatus'>>]]
              /\ fetchCalls' = [fetchCalls EXCEPT ![<<"bulk", b>>] =
                                  BeginFetch(Catalog[1].id)]
      /\ UNCHANGED <<now, ticks, dbVars, credentials, accessToken,
                     tokenExpiration, progressListeners, setCalls, initPc,
                     exported, lastOp, unsubscribed, index>>

\* the catalog is loaded: the starting event, then the first iteration up to
\* the first await of its fetchFromEndpoint (or the completed event when
\* the catalog is empty)
BulkStart(b) ==
  LET n     == Len(Catalog)
      start == Notify(delivered, StartingStatus(n))
      base  == [bulkCalls[b] EXCEPT !.audience = Registered,
                                    !.mark = [l \in DOMAIN delivered |-> Len(delivered[l])]]
  IN  /\ bulkCalls[b].pc = "importing"
      /\ IF n = 0
         THEN /\ progressStatus' = CompletedStatus(n)
              /\ delivered' = Notify(start, progressStatus')
              /\ dashboard' = DashboardCallback(
                                DashboardCallback(dashboard, StartingStatus(n)),
                                progressStatus')
              /\ bulkCalls' = [bulkCalls EXCEPT ![b] =
                   [base EXCEPT !.pc = AfterCompleted(bulkCalls[b]),
                                !.emitted = <<StartingStatus(n), progressStatus'>>]]
              /\ fetchCalls' = fetchCalls
         ELSE /\ progressStatus' = RunningStatus(0, n, Catalog[1].name)
              /\ delivered' = Notify(start, progressStatus')
              /\ dashboard' = DashboardCallback(
                                DashboardCallback(dashboard, StartingStatus(n)),
                                progressStatus')
              /\ bulkCalls' = [bulkCalls EXCEPT ![b] =
                   [base EXCEPT !.pc = "fetching",
                                !.attempted = <<Catalog[1].id>>,
                                !.emitted = <<StartingStatus(n), progressStatus'>>]]
              /\ fetchCalls' = [fetchCalls EXCEPT ![<<"bulk", b>>] =
                                  BeginFetch(Catalog[1].id)]
      /\ UNCHANGED <<now, ticks, dbVars, credentials, accessToken,
                     tokenExpiration, progressListeners, setCalls, initPc,
                     exported, lastOp, unsubscribed, index>>

\* BulkSnapshotDone without the try/catch: a rejected put rejects the call
BulkSnapshotDone_NoCatch(b, ok, d) ==
  /\ bulkCalls[b].pc = "snapshotting"
  /\ d > 0 => ticks < MaxTicks
  /\ now' = now + d
  /\ ticks' = IF d > 0 THEN ticks + 1 ELSE ticks
  /\ historical' = IF ok THEN PutSnapshot(historical,
                                          NewSnapshot(responses, now, now + d))
                   ELSE historical
  /\ bulkCalls' = [bulkCalls EXCEPT ![b] =
                     [@ EXCEPT !.pc = IF ok THEN "done" ELSE "rejected"]]
  /\ UNCHANGED <<dbCredentials, responses, lastLogin, credentials, accessToken,
                 tokenExpiration, progressStatus, progressListeners, delivered,
                 setCalls, fetchCalls, initPc, exported, lastOp, unsubscribed,
                 uiVars>>

\* the createHistoricalSnapshot awaited at the end of fetchAllEndpoints in
\* the revision with the snapshot settles and the call returns its results;
\* ok = FALSE is a rejected put, which the catch only logs; d > 0 is the
\* clock advancing between the two Date.now() reads of the snapshot object
BulkSnapshotDone(b, ok, d) ==
  /\ bulkCalls[b].pc = "snapshotting"
  /\ d > 0 => ticks < MaxTicks
  /\ now' = now + d
  /\ ticks' = IF d > 0 THEN ticks + 1 ELSE ticks
  /\ historical' = IF ok THEN PutSnapshot(historical,
                                          NewSnapshot(responses, now, now + d))
                   ELSE historical
  /\ bulkCalls' = [bulkCalls EXCEPT ![b] = [@ EXCEPT !.pc = "done"]]
  /\ UNCHANGED <<dbCredentials, responses, lastLogin, credentials, accessToken,
                 tokenExpiration, progressStatus, progressListeners, delivered,
                 setCalls, fetchCalls, initPc, exported, lastOp, unsubscribed,
                 uiVars>>

----------------------------------------------------------------------------
\* The pages: Index (the login flow) and DashboardPage ("fetch all")

\* bulkCalls once a page has called fetchAllEndpoints() as call b
Called(b) ==
  [k \in BulkIds |->
     IF k = b
     THEN [IdleBulk EXCEPT !.pc = "importing",
                           !.overlapped = \E j \in BulkIds : Active(j)]
     ELSE IF Active(k) THEN [bulkCalls[k] EXCEPT !.overlapped = TRUE]
          ELSE bulkCalls[k]]

\* call b is the next fetchAllEndpoints call of the run
NextCall(b) == /\ bulkCalls[b].pc = "idle"
               /\ \A k \in BulkIds : k < b => bulkCalls[k].pc # "idle"

\* the Index page mounts: checkCredentials reads hasCredentials() and, when
\* it is true, runs handleLogin up to the await of updateLastLogin
MountIndex ==
  /\ index.pc = "unmounted"
  /\ index' = [index EXCEPT !.pc = IF HasCredentials THEN "updatingLogin"
                                                     ELSE "skipped"]
  /\ UNCHANGED <<now, ticks, dbVars, svcVars, dashboard, exported, lastOp>>

\* updateLastLogin settles: handleLogin calls fetchAllEndpoints (call b), or,
\* when the put was rejected, rethrows and checkCredentials reports the error
LoginUpdated(b, ok) ==
  /\ index.pc = "updatingLogin"
  /\ IF ok
     THEN /\ NextCall(b)
          /\ lastLogin' = now
          /\ bulkCalls' = Called(b)
          /\ index' = [pc |-> "fetching", bulk |-> b]
     ELSE /\ b = 1
          /\ index' = [index EXCEPT !.pc = "failed"]
          /\ UNCHANGED <<lastLogin, bulkCalls>>
  /\ UNCHANGED <<now, ticks, dbCredentials, responses, historical, credentials,
                 accessToken, tokenExpiration, progressStatus,
                 progressListeners, delivered, unsubscribed, setCalls,
                 fetchCalls, initPc, dashboard, exported, lastOp>>

\* LoginSnapshot not awaiting fetchAllEndpoints
LoginSnapshot_NoWait(ok, d) ==
  /\ index.pc = "fetching"
  /\ d > 0 => ticks < MaxTicks
  /\ now' = now + d
  /\ ticks' = IF d > 0 THEN ticks + 1 ELSE ticks
  /\ historical' = IF ok THEN PutSnapshot(historical,
                                          NewSnapshot(responses, now, now + d))
                   ELSE historical
  /\ index' = [index EXCEPT !.pc = IF ok THEN "navigating" ELSE "failed"]
  /\ UNCHANGED <<dbCredentials, responses, lastLogin, svcVars, dashboard,
                 exported, lastOp>>

\* the fetchAllEndpoints of handleLogin has resolved and the
\* createHistoricalSnapshot called after it settles: checkCredentials
\* schedules the navigation to the dashboard, or, when the put was rejected,
\* reports the error; d > 0 is the clock advancing between the two
\* Date.now() reads of the snapshot object
LoginSnapshot(ok, d) ==
  /\ index.pc = "fetching"
  /\ bulkCalls[index.bulk].pc = "done"
  /\ d > 0 => ticks < MaxTicks
  /\ now' = now + d
  /\ ticks' = IF d > 0 THEN ticks + 1 ELSE ticks
  /\ historical' = IF ok THEN PutSnapshot(historical,
                                          NewSnapshot(responses, now, now + d))
                   ELSE historical
  /\ index' = [index EXCEPT !.pc = IF ok THEN "navigating" ELSE "failed"]
  /\ UNCHANGED <<dbCredentials, responses, lastLogin, svcVars, dashboard,
                 exported, lastOp>>

\* the DashboardPage mounts: isFetching starts as false and the effect
\* registers the page's progress callback l
MountDashboard(l) ==
  /\ ~dashboard.mounted
  /\ l = Len(delivered) + 1
  /\ progressListeners' = Append(progressListeners, l)
  /\ delivered' = Append(delivered, <<>>)
  /\ dashboard' = [dashboard EXCEPT !.mounted = TRUE, !.listener = l,
                                    !.isFetching = FALSE]
  /\ UNCHANGED <<now, ticks, dbVars, credentials, accessToken, tokenExpiration,
                 progressStatus, unsubscribed, setCalls, fetchCalls, bulkCalls,
                 initPc, index, exported, lastOp>>

\* the DashboardPage unmounts: the cleanup of the effect unregisters the
\* callback and the state of the page is dropped
UnmountDashboard ==
  /\ dashboard.mounted
  /\ progressListeners' =
       SelectSeq(progressListeners, LAMBDA x : x # dashboard.listener)
  /\ bulkCalls' = [b \in BulkIds |->
                     [bulkCalls[b] EXCEPT !.audience = @ \ {dashboard.listener}]]
  /\ unsubscribed' = unsubscribed \cup {dashboard.listener}
  /\ dashboard' = [dashboard EXCEPT !.mounted = FALSE, !.listener = 0,
                                    !.isFetching = FALSE]
  /\ UNCHANGED <<now, ticks, dbVars, credentials, accessToken, tokenExpiration,
                 progressStatus, delivered, setCalls, fetchCalls, initPc,
                 index, exported, lastOp>>

\* handleFetchAllData() while isFetching is false: isFetching is set and
\* fetchAllEndpoints is called (call b); while isFetching is true the handler
\* returns at once
HandleFetchAllData(b) ==
  /\ dashboard.mounted
  /\ ~dashboard.isFetching
  /\ NextCall(b)
  /\ bulkCalls' = Called(b)
  /\ dashboard' = [dashboard EXCEPT !.isFetching = TRUE,
                                    !.started = @ \cup {b}]
  /\ UNCHANGED <<now, ticks, dbVars, credentials, accessToken, tokenExpiration,
                 progressStatus, progressListeners, delivered, unsubscribed,
                 setCalls, fetchCalls, initPc, index, exported, lastOp>>

----------------------------------------------------------------------------
\* DatabaseService: operations called on the store directly

DbStamps    == {StartTime - 1, StartTime, StartTime + 1}
DbEndpoints == {API_ENDPOINTS[1].id, API_ENDPOINTS[2].id}
\* the response records handed to saveResponse
DbRecords   == {SuccessResponse(e, 1, ts) : e \in DbEndpoints, ts \in DbStamps}
               \cup {ErrorResponse(e, CredentialsNotSet, ts) :
                       e \in DbEndpoints, ts \in DbStamps}
\* the credentials handed to saveCredentials: setCredentials validates them
DbCredentials == {c \in CredInputs : ValidateCredentials(c)}

\* createHistoricalSnapshot(): ok = FALSE is a rejected put; d > 0 is the
\* clock advancing between the two Date.now() reads of the snapshot object
CreateHistoricalSnapshot(ok, d) ==
  /\ lastOp.n < MaxDbOps
  /\ d > 0 => ticks < MaxTicks
  /\ now' = now + d
  /\ ticks' = IF d > 0 THEN ticks + 1 ELSE ticks
  /\ historical' = IF ok THEN PutSnapshot(historical,
                                          NewSnapshot(responses, now, now + d))
                   ELSE historical
  /\ lastOp' = [op |-> "createHistoricalSnapshot", n |-> lastOp.n + 1, ok |-> ok]
  /\ UNCHANGED <<dbCredentials, responses, lastLogin, svcVars, exported,
                 uiVars>>

\* updateLastLogin()
UpdateLastLogin(ok) ==
  /\ lastOp.n < MaxDbOps
  /\ lastLogin' = IF ok THEN now ELSE lastLogin
  /\ lastOp' = [op |-> "updateLastLogin", n |-> lastOp.n + 1, ok |-> ok]
  /\ UNCHANGED <<now, ticks, dbCredentials, responses, historical, svcVars,
                 exported, uiVars>>

\* exportAllData()
ExportAllData ==
  /\ lastOp.n < MaxDbOps
  /\ exported' = ExportData(dbCredentials, responses, historical, lastLogin)
  /\ lastOp' = [op |-> "exportAllData", n |-> lastOp.n + 1]
  /\ UNCHANGED <<now, ticks, dbVars, svcVars, uiVars>>

\* SaveCredentials as an add: the record already stored is kept
SaveCredentials_Add(c, ok) ==
  /\ lastOp.n < MaxDbOps
  /\ dbCredentials' = IF ok /\ dbCredentials = Undefined THEN c ELSE dbCredentials
  /\ lastOp' = [op |-> "saveCredentials", n |-> lastOp.n + 1, ok |-> ok,
                arg |-> c]
  /\ UNCHANGED <<now, ticks, responses, historical, lastLogin, svcVars, exported,
                 uiVars>>

\* saveCredentials(c); ok = FALSE is a rejected put
SaveCredentials(c, ok) ==
  /\ lastOp.n < MaxDbOps
  /\ dbCredentials' = IF ok THEN c ELSE dbCredentials
  /\ lastOp' = [op |-> "saveCredentials", n |-> lastOp.n + 1, ok |-> ok,
                arg |-> c]
  /\ UNCHANGED <<now, ticks, responses, historical, lastLogin, svcVars, exported,
                 uiVars>>

\* saveResponse(r); repeat tells whether r was already stored as it is
SaveResponse(r, ok) ==
  /\ lastOp.n < MaxDbOps
  /\ responses' = IF ok THEN PutResponse(responses, r) ELSE responses
  /\ lastOp' = [op |-> "saveResponse", n |-> lastOp.n + 1, ok |-> ok, arg |-> r,
                repeat |-> \E q \in responses :
                             /\ q.id = ResponseId(r.endpointId, r.timestamp)
                             /\ q.data = r.data /\ q.success = r.success
                             /\ q.error = r.error]
  /\ UNCHANGED <<now, ticks, dbCredentials, historical, lastLogin, svcVars,
                 exported, uiVars>>

\* getLatestResponseByEndpoint(e); after is the record saved by the
\* operation right before it, if that was a successful saveResponse
CallGetLatestResponseByEndpoint(e) ==
  /\ lastOp.n < MaxDbOps
  /\ lastOp' = [op |-> "getLatestResponseByEndpoint", n |-> lastOp.n + 1,
                endpoint |-> e,
                result |-> GetLatestResponseByEndpoint(responses, e),
                after |-> IF lastOp.op = "saveResponse" /\ lastOp.ok
                          THEN lastOp.arg ELSE Undefined]
  /\ UNCHANGED <<now, ticks, dbVars, svcVars, exported, uiVars>>

\* deleteResponsesByEndpoint(e)
DeleteResponsesByEndpoint(e) ==
  /\ lastOp.n < MaxDbOps
  /\ responses' = {r \in responses : r.endpointId # e}
  /\ lastOp' = [op |-> "deleteResponsesByEndpoint", n |-> lastOp.n + 1]
  /\ UNCHANGED <<now, ticks, dbCredentials, historical, lastLogin, svcVars,
                 exported, uiVars>>

\* clearAllResponses()
ClearAllResponses ==
  /\ lastOp.n < MaxDbOps
  /\ responses' = {}
  /\ lastOp' = [op |-> "clearAllResponses", n |-> lastOp.n + 1]
  /\ UNCHANGED <<now, ticks, dbCredentials, historical, lastLogin, svcVars,
                 exported, uiVars>>

\* getHistoricalSnapshots()
CallGetHistoricalSnapshots ==
  /\ lastOp.n < MaxDbOps
  /\ lastOp' = [op |-> "getHistoricalSnapshots", n |-> lastOp.n + 1,
                result |-> GetHistoricalSnapshots(historical)]
  /\ UNCHANGED <<now, ticks, dbVars, svcVars, exported, uiVars>>

\* getSnapshotResponses(h), h a snapshot obtained from the store
CallGetSnapshotResponses(h) ==
  /\ lastOp.n < MaxDbOps
  /\ h \in historical
  /\ lastOp' = [op |-> "getSnapshotResponses", n |-> lastOp.n + 1,
                snapshot |-> h,
                result |-> GetSnapshotResponses(responses, h)]
  /\ UNCHANGED <<now, ticks, dbVars, svcVars, exported, uiVars>>

----------------------------------------------------------------------------
\* Specifications

\* the service fetching single endpoints: fetchFromEndpoint calls for the
\* first two endpoints of the catalog
Next ==
  \/ \E d \in TickSteps : Tick(d)
  \/ \E ok \in BOOLEAN : InitializeCredentials(ok)
  \/ \E f \in FetchIds, e \in DbEndpoints : FetchFromEndpoint(f, e)
  \/ \E s \in Slots : FetchTokenMinted(s)
  \/ \E s \in Slots, v \in MockVariants : FetchResponded(s, v)
  \/ \E s \in Slots, ok \in BOOLEAN : FetchPutDone(s, ok)
  \/ \E s \in Slots, ok \in BOOLEAN : FetchErrorPutDone(s, ok)

Spec == Init /\ [][Next]_vars

\* the service fetching the catalog: one fetchAllEndpoints call, the
\* listeners and the clock
NextBulk ==
  \/ \E d \in TickSteps : Tick(d)
  \/ \E ok \in BOOLEAN : InitializeCredentials(ok)
  \/ \E l \in Listeners : OnProgressUpdate(l)
  \/ \E l \in Listeners : Unsubscribe(l)
  \/ FetchAllEndpoints(1)
  \/ \E b \in BulkIds : BulkStart(b)
  \/ \E s \in Slots : FetchTokenMinted(s)
  \/ \E s \in Slots, v \in MockVariants : FetchResponded(s, v)
  \/ \E s \in Slots, ok \in BOOLEAN : FetchPutDone(s, ok)
  \/ \E s \in Slots, ok \in BOOLEAN : FetchErrorPutDone(s, ok)

SpecBulk == Init /\ [][NextBulk]_vars

\* fetchAllEndpoints calls that may overlap (the login refresh of the Index
\* page and the dashboard's "fetch all"), at one clock reading
NextOverlap ==
  \/ \E ok \in BOOLEAN : InitializeCredentials(ok)
  \/ \E b \in BulkIds : FetchAllEndpoints(b)
  \/ \E b \in BulkIds : BulkStart(b)
  \/ \E s \in Slots : FetchTokenMinted(s)
  \/ \E s \in Slots, v \in MockVariants : FetchResponded(s, v)
  \/ \E s \in Slots, ok \in BOOLEAN : FetchPutDone(s, ok)
  \/ \E s \in Slots, ok \in BOOLEAN : FetchErrorPutDone(s, ok)

SpecOverlap == Init /\ [][NextOverlap]_vars

\* the listeners of one fetchAllEndpoints call, at one clock reading
NextListen ==
  \/ \E ok \in BOOLEAN : InitializeCredentials(ok)
  \/ \E l \in Subscribers : OnProgressUpdate(l)
  \/ \E l \in Subscribers : Unsubscribe(l)
  \/ FetchAllEndpoints(1)
  \/ \E b \in BulkIds : BulkStart(b)
  \/ \E s \in Slots : FetchTokenMinted(s)
  \/ \E s \in Slots, v \in MockVariants : FetchResponded(s, v)
  \/ \E s \in Slots, ok \in BOOLEAN : FetchPutDone(s, ok)
  \/ \E s \in Slots, ok \in BOOLEAN : FetchErrorPutDone(s, ok)

SpecListen == Init /\ [][NextListen]_vars

\* the credentials: the startup load and setCredentials calls
NextCred ==
  \/ \E ok \in BOOLEAN : InitializeCredentials(ok)
  \/ \E c \in SetIds, arg \in CredInputs : SetCredentials(c, arg)
  \/ \E c \in SetIds : SetCredentialsValidated(c)
  \/ \E c \in SetIds, ok \in BOOLEAN : SetCredentialsSaved(c, ok)

SpecCred == Init /\ [][NextCred]_vars

\* the store alone, driven with arbitrary arguments
NextDb ==
  \/ \E d \in TickSteps : Tick(d)
  \/ \E c \in DbCredentials, ok \in BOOLEAN : SaveCredentials(c, ok)
  \/ \E r \in DbRecords, ok \in BOOLEAN : SaveResponse(r, ok)
  \/ \E e \in DbEndpoints : CallGetLatestResponseByEndpoint(e)
  \/ \E e \in DbEndpoints : DeleteResponsesByEndpoint(e)
  \/ ClearAllResponses
  \/ \E ok \in BOOLEAN, d \in {0, 1} : CreateHistoricalSnapshot(ok, d)
  \/ \E ok \in BOOLEAN : UpdateLastLogin(ok)
  \/ ExportAllData

\* the snapshots: responses saved by fetches, deleted, snapshot and viewed
NextHist ==
  \/ \E d \in TickSteps : Tick(d)
  \/ \E e \in DbEndpoints, ok \in BOOLEAN :
        SaveResponse(SuccessResponse(e, 1, now), ok)
  \/ \E e \in DbEndpoints : DeleteResponsesByEndpoint(e)
  \/ ClearAllResponses
  \/ \E ok \in BOOLEAN, d \in {0, 1} : CreateHistoricalSnapshot(ok, d)
  \/ CallGetHistoricalSnapshots
  \/ \E h \in historical : CallGetSnapshotResponses(h)

\* the revision whose fetchAllEndpoints ends with createHistoricalSnapshot:
\* one call, a listener and the clock
NextRev ==
  \/ \E d \in TickSteps : Tick(d)
  \/ \E ok \in BOOLEAN : InitializeCredentials(ok)
  \/ \E l \in Listeners : OnProgressUpdate(l)
  \/ FetchAllEndpointsWithSnapshot(1)
  \/ \E b \in BulkIds : BulkStart(b)
  \/ \E s \in Slots : FetchTokenMinted(s)
  \/ \E s \in Slots, v \in MockVariants : FetchResponded(s, v)
  \/ \E s \in Slots, ok \in BOOLEAN : FetchPutDone(s, ok)
  \/ \E s \in Slots, ok \in BOOLEAN : FetchErrorPutDone(s, ok)
  \/ \E b \in BulkIds, ok \in BOOLEAN, d \in {0, 1} : BulkSnapshotDone(b, ok, d)

SpecRev == Init /\ [][NextRev]_vars

\* the login flow of the Index page
NextLogin ==
  \/ \E d \in TickSteps : Tick(d)
  \/ \E ok \in BOOLEAN : InitializeCredentials(ok)
  \/ MountIndex
  \/ \E b \in BulkIds, ok \in BOOLEAN : LoginUpdated(b, ok)
  \/ \E b \in BulkIds : BulkStart(b)
  \/ \E s \in Slots : FetchTokenMinted(s)
  \/ \E s \in Slots, v \in MockVariants : FetchResponded(s, v)
  \/ \E s \in Slots, ok \in BOOLEAN : FetchPutDone(s, ok)
  \/ \E s \in Slots, ok \in BOOLEAN : FetchErrorPutDone(s, ok)
  \/ \E ok \in BOOLEAN, d \in {0, 1} : LoginSnapshot(ok, d)

SpecLogin == Init /\ [][NextLogin]_vars

\* the dashboard next to the login flow: the user may open the dashboard while
\* the refresh started by the Index page is running, and leave and reopen
\* it; the store accepts every response (SpecBulk has the rejected puts)
NextDash ==
  \/ \E ok \in BOOLEAN : InitializeCredentials(ok)
  \/ MountIndex
  \/ \E b \in BulkIds, ok \in BOOLEAN : LoginUpdated(b, ok)
  \/ \E ok \in BOOLEAN : LoginSnapshot(ok, 0)
  \/ \E l \in Subscribers : MountDashboard(l)
  \/ UnmountDashboard
  \/ \E b \in BulkIds : HandleFetchAllData(b)
  \/ \E b \in BulkIds : BulkStart(b)
  \/ \E s \in Slots : FetchTokenMinted(s)
  \/ \E s \in Slots, v \in MockVariants : FetchResponded(s, v)
  \/ \E s \in Slots : FetchPutDone(s, TRUE)
  \/ \E s \in Slots : FetchErrorPutDone(s, TRUE)

SpecDash == Init /\ [][NextDash]_vars

\* the credentials submitted while a token is cached: the valid ones and one
\* with an empty field
TokenCredInputs ==
  DbCredentials \cup {[clientId |-> "a", clientSecret |-> "", refreshToken |-> "b"]}

\* the cached token while the credentials are replaced: one setCredentials
\* call and fetchFromEndpoint calls for the first endpoint of the catalog,
\* the store accepting every response (Spec has the rejected puts)
NextToken ==
  \/ \E d \in TickSteps : Tick(d)
  \/ \E ok \in BOOLEAN : InitializeCredentials(ok)
  \/ \E arg \in TokenCredInputs : SetCredentials(1, arg)
  \/ \E c \in SetIds : SetCredentialsValidated(c)
  \/ \E c \in SetIds, ok \in BOOLEAN : SetCredentialsSaved(c, ok)
  \/ \E f \in FetchIds : FetchFromEndpoint(f, API_ENDPOINTS[1].id)
  \/ \E s \in Slots : FetchTokenMinted(s)
  \/ \E s \in Slots, v \in MockVariants : FetchResponded(s, v)
  \/ \E s \in Slots : FetchPutDone(s, TRUE)
  \/ \E s \in Slots : FetchErrorPutDone(s, TRUE)

SpecToken == Init /\ [][NextToken]_vars

\* the store as an earlier session may have left it
InitialStores ==
  {{}, PutResponse(PutResponse({}, SuccessResponse(API_ENDPOINTS[1].id, 1,
                                                   StartTime + 1)),
                   ErrorResponse(API_ENDPOINTS[2].id, CredentialsNotSet,
                                 StartTime))}

InitDb ==
  /\ now = StartTime + 1
  /\ ticks = 0
  /\ dbCredentials \in {Undefined,
                        [clientId |-> "a", clientSecret |-> "a", refreshToken |-> "b"]}
  /\ responses \in InitialStores
  /\ historical = {}
  /\ lastLogin = UndefinedNum
  /\ credentials = Null
  /\ accessToken = NullStr
  /\ tokenExpiration = 0
  /\ progressStatus = IdleStatus
  /\ progressListeners = <<>>
  /\ delivered = <<>>
  /\ unsubscribed = {}
  /\ setCalls = [c \in SetIds |-> IdleSet]
  /\ fetchCalls = [s \in Slots |-> IdleFetch]
  /\ bulkCalls = [b \in BulkIds |-> IdleBulk]
  /\ initPc = "loading"
  /\ index = IdleIndex
  /\ dashboard = IdleDashboard
  /\ exported = Undefined
  /\ lastOp = [op |-> "none", n |-> 0]

SpecDb == InitDb /\ [][NextDb]_vars

SpecHist == InitDb /\ [][NextHist]_vars

----------------------------------------------------------------------------
\* Properties

AllNonEmpty(c) == c.clientId # "" /\ c.clientSecret # "" /\ c.refreshToken # ""

\* the records stored for endpoint e, and the one with the greatest timestamp
StoredFor(store, e) == {r \in store : r.endpointId = e}
IsNewest(store, r)  == \A q \in StoredFor(store, r.endpointId) :
                          q.timestamp <= r.timestamp

\* r with the id saveResponse gives it
Stored(r) == [id |-> ResponseId(r.endpointId, r.timestamp),
              endpointId |-> r.endpointId, data |-> r.data,
              timestamp |-> r.timestamp, success |-> r.success,
              error |-> r.error]

\* C1 (as amended): a setCredentials call with three non-empty fields returns
\* true exactly when the put of the credentials record succeeded, false when
\* it was rejected; after a call has returned true, hasCredentials() is true.
C1_ValidAcceptedUnlessPutFails ==
  \A c \in SetIds :
    setCalls[c].pc = "done" =>
      /\ AllNonEmpty(setCalls[c].arg) =>
           /\ setCalls[c].put \in {"ok", "failed"}
           /\ setCalls[c].result = (setCalls[c].put = "ok")
      /\ setCalls[c].result => HasCredentials

\* C1 as stated: every setCredentials call with three non-empty fields
\* returns true, and hasCredentials() is true afterwards.
C1_Original ==
  \A c \in SetIds :
    (setCalls[c].pc = "done" /\ AllNonEmpty(setCalls[c].arg)) =>
      (setCalls[c].result /\ HasCredentials)

C1_Witness ==
  \E c \in SetIds :
    /\ setCalls[c].pc = "done"
    /\ AllNonEmpty(setCalls[c].arg)
    /\ setCalls[c].result
    /\ HasCredentials

\* C2: a setCredentials call with an empty field returns false (it never
\* reaches the save) and none of its steps changes the in-memory credentials
\* or the persisted credentials record.
C2_InvalidRejectedNoChange ==
  [][\A c \in SetIds :
       (setCalls'[c] # setCalls[c] /\ ~AllNonEmpty(setCalls'[c].arg)) =>
          /\ credentials' = credentials
          /\ dbCredentials' = dbCredentials
          /\ setCalls'[c].pc \in {"validating", "done"}
          /\ setCalls'[c].pc = "done" => ~setCalls'[c].result]_vars

C2_Witness ==
  \E c \in SetIds :
    /\ setCalls[c].pc = "done"
    /\ ~AllNonEmpty(setCalls[c].arg)
    /\ ~setCalls[c].result
    /\ HasCredentials
    /\ dbCredentials # Undefined

\* C3: in every state reached by fetchFromEndpoint calls, getLatestResponses
\* and getLatestResponseByEndpoint yield, for an endpoint with stored
\* records, the stored record with the greatest timestamp, and nothing for
\* an endpoint without stored records.
C3_LatestIsMaxTimestamp ==
  \A e \in EndpointIds :
    IF StoredFor(responses, e) = {}
    THEN /\ LatestOf(responses, e) = Undefined
         /\ GetLatestResponseByEndpoint(responses, e) = Undefined
    ELSE \E r \in StoredFor(responses, e) :
           /\ IsNewest(responses, r)
           /\ LatestOf(responses, e) = r
           /\ GetLatestResponseByEndpoint(responses, e) = r

C3_Witness ==
  \E r1, r2 \in responses :
    /\ r1.endpointId = r2.endpointId
    /\ r1.timestamp < r2.timestamp
    /\ \E e \in CatalogIds : StoredFor(responses, e) = {}

\* the events callback l received from the start of call b on
EventsSince(b, l) ==
  SubSeq(delivered[l], bulkCalls[b].mark[l] + 1, Len(delivered[l]))

\* C4 (as amended): a fetchAllEndpoints call over N endpoints that no other
\* call overlaps delivers N+2 events to a callback registered throughout: the
\* starting event and one per endpoint, all 'running', then 'completed' with
\* progress = total = N.
C4_ProgressEventCount ==
  \A b \in BulkIds :
    (bulkCalls[b].pc = "done" /\ ~bulkCalls[b].overlapped) =>
      \A l \in bulkCalls[b].audience :
        LET n   == Len(Catalog)
            evs == EventsSince(b, l)
        IN  /\ Len(evs) >= n + 2
            /\ \A k \in 1..(n + 1) : evs[k].status = "running"
            /\ evs[n + 2].status = "completed"
            /\ evs[n + 2].progress = n
            /\ evs[n + 2].total = n

\* C4 as stated: the call delivers N+1 events, the last one 'completed'.
C4_Original ==
  \A b \in BulkIds :
    (bulkCalls[b].pc = "done" /\ ~bulkCalls[b].overlapped) =>
      \A l \in bulkCalls[b].audience :
        LET n   == Len(Catalog)
            evs == EventsSince(b, l)
        IN  /\ Len(evs) >= n + 1
            /\ evs[n + 1].status = "completed"

C4_Witness ==
  \E b \in BulkIds :
    /\ bulkCalls[b].pc = "done"
    /\ ~bulkCalls[b].overlapped
    /\ bulkCalls[b].audience # {}

\* C5: the mapping a fetchAllEndpoints call resolves to has exactly one entry
\* per catalog endpoint id, and the entry for id e has endpointId e, whether
\* the fetches succeeded or failed.
C5_ResultPerEndpoint ==
  \A b \in BulkIds :
    bulkCalls[b].pc = "done" =>
      /\ DOMAIN bulkCalls[b].results = CatalogIds
      /\ Cardinality(DOMAIN bulkCalls[b].results) = Len(Catalog)
      /\ \A e \in CatalogIds : bulkCalls[b].results[e].endpointId = e

C5_Witness ==
  \E b \in BulkIds :
    /\ bulkCalls[b].pc = "done"
    /\ \E e1, e2 \in CatalogIds :
         /\ bulkCalls[b].results[e1].success
         /\ ~bulkCalls[b].results[e2].success

\* C6: a fetchAllEndpoints call never rejects; when it has resolved it has
\* attempted every catalog endpoint, in order, whatever happened to the
\* earlier ones, and the last status it emitted is 'completed'.
C6_FailuresDoNotAbort ==
  \A b \in BulkIds :
    /\ bulkCalls[b].pc \in {"idle", "importing", "fetching", "done"}
    /\ bulkCalls[b].attempted =
         [i \in 1..Len(bulkCalls[b].attempted) |-> Catalog[i].id]
    /\ bulkCalls[b].pc = "done" =>
         /\ Len(bulkCalls[b].attempted) = Len(Catalog)
         /\ bulkCalls[b].emitted[Len(bulkCalls[b].emitted)] =
              CompletedStatus(Len(Catalog))

\* a call that went on after its first fetch rejected with a storage error,
\* and one that went on without credentials
C6_Witness ==
  \E b \in BulkIds :
    /\ bulkCalls[b].pc = "done"
    /\ Len(Catalog) > 1
    /\ ~bulkCalls[b].results[Catalog[1].id].success
    /\ bulkCalls[b].results[Catalog[1].id].error = StorageFailure
    /\ \A r \in responses : r.endpointId # Catalog[1].id

Ends(s) == /\ fetchCalls[s].pc \notin {"returned", "rejected"}
           /\ fetchCalls'[s].pc \in {"returned", "rejected"}

\* C7 (as amended): a fetchFromEndpoint call started without credentials in
\* memory never mints a token and never builds a success record; it returns
\* the record {success false, data null, error 'Credentials not set'} with
\* that record in the responses store at the moment it returns, or, when the
\* put of that record is rejected, rejects and leaves the store unchanged.
C7_NoCredentialsFailure ==
  [][\A s \in Slots :
       /\ (fetchCalls[s].pc = "idle" /\ fetchCalls'[s].pc # "idle"
             /\ credentials = Null) =>
            /\ fetchCalls'[s].noCreds
            /\ fetchCalls'[s].rec =
                 [endpointId |-> fetchCalls'[s].endpoint, data |-> Null,
                  timestamp |-> now, success |-> FALSE,
                  error |-> "Credentials not set"]
       /\ fetchCalls'[s].noCreds =>
            /\ fetchCalls'[s].pc \in {"savingErr", "returned", "rejected"}
            /\ fetchCalls'[s] # fetchCalls[s] =>
                 (accessToken' = accessToken /\ tokenExpiration' = tokenExpiration)
            /\ Ends(s) =>
                 \/ /\ fetchCalls'[s].pc = "returned"
                    /\ fetchCalls'[s].result = fetchCalls[s].rec
                    /\ Stored(fetchCalls'[s].result) \in responses'
                 \/ /\ fetchCalls'[s].pc = "rejected"
                    /\ responses' = responses]_vars

\* C7 as stated: the call returns the failure record, which is in the store
\* when it returns.
C7_Original ==
  [][\A s \in Slots :
       (fetchCalls'[s].noCreds /\ Ends(s)) =>
          /\ fetchCalls'[s].pc = "returned"
          /\ ~fetchCalls'[s].result.success
          /\ fetchCalls'[s].result.error = "Credentials not set"
          /\ Stored(fetchCalls'[s].result) \in responses']_vars

C7_Witness ==
  \E s \in Slots :
    /\ fetchCalls[s].noCreds
    /\ fetchCalls[s].pc = "returned"
    /\ fetchCalls[s].result.error = "Credentials not set"
    /\ Stored(fetchCalls[s].result) \in responses
    /\ accessToken = NullStr

\* the strings that occur as values in an exported document
StringsOf(doc) ==
  (IF doc.credentials = Null THEN {}
   ELSE {doc.credentials.clientId, doc.credentials.clientSecret,
         doc.credentials.refreshToken})
  \cup {doc.responses[i].id : i \in 1..Len(doc.responses)}
  \cup {doc.responses[i].endpointId : i \in 1..Len(doc.responses)}
  \cup {doc.responses[i].error : i \in 1..Len(doc.responses)}
  \cup {doc.snapshots[i].id : i \in 1..Len(doc.snapshots)}
  \cup UNION {{doc.snapshots[i].responseIds[k] :
                 k \in 1..Len(doc.snapshots[i].responseIds)} :
              i \in 1..Len(doc.snapshots)}

Exports == lastOp'.op = "exportAllData" /\ lastOp'.n # lastOp.n

\* C8 (as amended): the credentials of an exported document are null when no
\* credentials are stored, and otherwise carry the stored clientId and the
\* placeholder '********' in both secret fields; the document is the same
\* whatever the stored clientSecret and refreshToken are.
C8_ExportRedacted ==
  [][Exports =>
       IF dbCredentials = Undefined
       THEN exported'.credentials = Null
       ELSE /\ exported'.credentials =
                 [clientId |-> dbCredentials.clientId,
                  clientSecret |-> "********", refreshToken |-> "********"]
            /\ \A x, y \in CredStrings :
                 exported' = ExportData([dbCredentials EXCEPT
                                           !.clientSecret = x, !.refreshToken = y],
                                        responses, historical, lastLogin)]_vars

\* C8 as stated: the stored (non-empty) secret strings are not among the
\* strings of the exported document.
C8_Original ==
  [][(Exports /\ dbCredentials # Undefined) =>
       /\ dbCredentials.clientSecret # "" =>
            dbCredentials.clientSecret \notin StringsOf(exported')
       /\ dbCredentials.refreshToken # "" =>
            dbCredentials.refreshToken \notin StringsOf(exported')]_vars

C8_Witness ==
  /\ lastOp.op = "exportAllData"
  /\ exported # Undefined
  /\ exported.credentials # Null
  /\ dbCredentials # Undefined
  /\ dbCredentials.clientSecret # ""
  /\ dbCredentials.clientSecret # dbCredentials.clientId
  /\ Len(exported.responses) > 0
  /\ Len(exported.snapshots) > 0

Snapshots == /\ lastOp'.op = "createHistoricalSnapshot"
             /\ lastOp'.n # lastOp.n
             /\ lastOp'.ok

\* C9: the snapshot stored by createHistoricalSnapshot lists as many response
\* ids as there are endpoints with stored records, and for each such endpoint
\* the id of its stored record with the greatest timestamp.
C9_SnapshotOfLatest ==
  [][Snapshots =>
       \E h \in historical' :
         /\ h.id = SnapshotId(now)
         /\ Len(h.responseIds) =
              Cardinality({r.endpointId : r \in responses})
         /\ \A r \in responses :
              IsNewest(responses, r) =>
                \E i \in 1..Len(h.responseIds) : h.responseIds[i] = r.id]_vars

C9_Witness ==
  /\ lastOp.op = "createHistoricalSnapshot"
  /\ lastOp.ok
  /\ \E h \in historical :
       /\ Len(h.responseIds) = 2
       /\ \E r \in responses :
            /\ ~IsNewest(responses, r)
            /\ \E q \in responses :
                 /\ q.endpointId = r.endpointId
                 /\ IsNewest(responses, q)
                 /\ \E i \in 1..2 : h.responseIds[i] = q.id

RoundTrip == /\ lastOp.op = "getLatestResponseByEndpoint"
             /\ lastOp.after # Undefined
             /\ lastOp.after.endpointId = lastOp.endpoint

\* C10 (as amended): saveResponse(r) followed by
\* getLatestResponseByEndpoint(r.endpointId) returns r (with its id) provided
\* no record stored for r.endpointId has a greater timestamp than r;
\* otherwise it returns the stored record with the greatest timestamp.
C10_RoundTripOfNewest ==
  RoundTrip =>
    /\ lastOp.result \in responses
    /\ IsNewest(responses, lastOp.result)
    /\ IsNewest(responses, lastOp.after) => lastOp.result = Stored(lastOp.after)

\* C10 as stated: the record returned equals the record saved.
C10_Original ==
  RoundTrip => lastOp.result = Stored(lastOp.after)

C10_Witness ==
  /\ RoundTrip
  /\ lastOp.result = Stored(lastOp.after)
  /\ Cardinality(StoredFor(responses, lastOp.endpoint)) > 1

Saves == /\ lastOp'.op = "saveResponse"
         /\ lastOp'.n # lastOp.n
         /\ lastOp'.ok

\* C11: after saveResponse(r) the store holds exactly one record under the id
\* endpointId-timestamp, and it is r; saving a record that is already stored
\* leaves the store as it is, and saving under an id that is already taken
\* leaves the number of records as it is.
C11_SaveIdempotent ==
  [][Saves =>
       LET r  == lastOp'.arg
           id == ResponseId(r.endpointId, r.timestamp)
       IN  /\ {q \in responses' : q.id = id} = {Stored(r)}
           /\ Stored(r) \in responses => responses' = responses
           /\ (\E q \in responses : q.id = id) =>
                Cardinality(responses') = Cardinality(responses)
           /\ PutResponse(responses', r) = responses']_vars

\* a record saved a second time, next to other records
C11_Witness ==
  /\ lastOp.op = "saveResponse"
  /\ lastOp.ok
  /\ lastOp.repeat
  /\ Stored(lastOp.arg) \in responses
  /\ Cardinality(responses) > 1

\* the statuses passed to updateProgress in the step, in order
NewEvents ==
  IF \E b \in BulkIds : Len(bulkCalls'[b].emitted) > Len(bulkCalls[b].emitted)
  THEN LET b == CHOOSE k \in BulkIds :
                  Len(bulkCalls'[k].emitted) > Len(bulkCalls[k].emitted)
       IN  SubSeq(bulkCalls'[b].emitted, Len(bulkCalls[b].emitted) + 1,
                  Len(bulkCalls'[b].emitted))
  ELSE <<>>

\* C12: every status passed to updateProgress is delivered, in order, to
\* every callback registered and not unregistered at that moment, and becomes
\* the current status; a callback whose unregister function has been called
\* is not invoked any more, and no callback is invoked otherwise.
C12_ListenersNotified ==
  [][/\ \A l \in DOMAIN delivered :
          delivered'[l] = IF l \in unsubscribed THEN delivered[l]
                          ELSE delivered[l] \o NewEvents
     /\ NewEvents # <<>> => progressStatus' = NewEvents[Len(NewEvents)]
     /\ NewEvents = <<>> => progressStatus' = progressStatus]_vars

\* one callback unregistered during the call, another registered till its end
C12_Witness ==
  /\ bulkCalls[1].pc = "done"
  /\ \E l \in unsubscribed, k \in Registered :
       /\ k \notin unsubscribed
       /\ Len(delivered[l]) > 0
       /\ Len(delivered[k]) > Len(delivered[l])
       /\ delivered[k][Len(delivered[k])].status = "completed"

Returns(c) == setCalls[c].pc # "done" /\ setCalls'[c].pc = "done"

\* C13: hasCredentials() is true exactly when the startup load has found
\* stored credentials or a setCredentials call has returned true, and once
\* true it stays true.
C13_HasCredentialsIff ==
  [][/\ HasCredentials' <=> \/ initPc' = "found"
                             \/ \E c \in SetIds : /\ setCalls'[c].pc = "done"
                                                   /\ setCalls'[c].result
     /\ HasCredentials => HasCredentials'
     /\ \A c \in SetIds : (Returns(c) /\ setCalls'[c].result) => HasCredentials'
     /\ (initPc = "loading" /\ initPc' = "found") => credentials' = dbCredentials]_vars

\* the startup load found nothing, a later setCredentials returned true, and
\* a call with an empty field after it returned false
C13_Witness ==
  /\ initPc = "empty"
  /\ HasCredentials
  /\ \E c, k \in SetIds :
       /\ c < k
       /\ setCalls[c].pc = "done" /\ setCalls[c].result
       /\ setCalls[k].pc = "done" /\ ~setCalls[k].result

SavesCredentials == /\ lastOp'.op = "saveCredentials"
                    /\ lastOp'.n # lastOp.n
                    /\ lastOp'.ok

\* C14: the credentials record changes only when a saveCredentials succeeds,
\* and then to the argument of that call; a rejected saveCredentials and
\* every other store operation leave it as it is, so a record once stored is
\* never removed and is the argument of the most recent save.
C14_CredentialsSingleton ==
  [][/\ SavesCredentials => dbCredentials' = lastOp'.arg
     /\ ~SavesCredentials => dbCredentials' = dbCredentials
     /\ dbCredentials # Undefined => dbCredentials' # Undefined]_vars

\* the record of a save that replaced another one, after the responses were
\* cleared
C14_Witness ==
  /\ lastOp.op = "clearAllResponses"
  /\ dbCredentials # Undefined
  /\ dbCredentials.clientId = "b"

\* C15: getHistoricalSnapshots returns every stored snapshot exactly once,
\* and no element of the list has a smaller date than the element after it.
C15_SnapshotsNewestFirst ==
  lastOp.op = "getHistoricalSnapshots" =>
    LET l == lastOp.result
    IN  /\ {l[i] : i \in 1..Len(l)} = historical
        /\ Len(l) = Cardinality(historical)
        /\ \A i \in 1..(Len(l) - 1) : l[i].date >= l[i + 1].date

\* a list of snapshots taken at different times
C15_Witness ==
  /\ lastOp.op = "getHistoricalSnapshots"
  /\ Len(lastOp.result) > 1
  /\ lastOp.result[1].date > lastOp.result[2].date

\* C16: getSnapshotResponses(snapshot) returns, under their endpoint ids,
\* exactly the stored records whose id the snapshot lists; a listed id
\* without a stored record contributes nothing.
C16_SnapshotResponsesOmitMissing ==
  lastOp.op = "getSnapshotResponses" =>
    LET res  == lastOp.result
        ids  == lastOp.snapshot.responseIds
        live == {r \in responses : \E i \in 1..Len(ids) : ids[i] = r.id}
    IN  /\ DOMAIN res = {r.endpointId : r \in live}
        /\ {res[e] : e \in DOMAIN res} = live
        /\ \A e \in DOMAIN res : res[e].endpointId = e

\* a snapshot of two records, one of them deleted since
C16_Witness ==
  /\ lastOp.op = "getSnapshotResponses"
  /\ Len(lastOp.snapshot.responseIds) = 2
  /\ Cardinality(DOMAIN lastOp.result) = 1

\* whether event k of a call over n endpoints is the one its position asks
\* for: the starting event, the event of endpoint k-2, the completed event
InOrder(ev, k, n) ==
  /\ ev.total = n
  /\ 0 <= ev.progress /\ ev.progress <= ev.total
  /\ IF k = 1
     THEN ev.status = "running" /\ ev.progress = 0
     ELSE IF k <= n + 1
          THEN /\ ev.status = "running"
               /\ ev.progress = k - 2
               /\ ev.currentEndpoint = API_ENDPOINTS[k - 1].name
          ELSE ev.status = "completed" /\ ev.progress = n

\* C17: the statuses a fetchAllEndpoints call over N endpoints emits, and a
\* callback registered throughout receives, are in order: running with
\* progress 0; running with progress i and the name of endpoint i, for
\* i = 0..N-1; completed with progress N.  Every status has
\* 0 <= progress <= total = N and progress never decreases.
C17_ProgressOrder ==
  \A b \in BulkIds :
    LET evs == bulkCalls[b].emitted
        n   == CatalogSize
    IN  /\ Len(evs) <= n + 2
        /\ \A k \in 1..Len(evs) : InOrder(evs[k], k, n)
        /\ \A k \in 1..(Len(evs) - 1) : evs[k].progress <= evs[k + 1].progress
        /\ bulkCalls[b].pc = "done" => Len(evs) = n + 2
        /\ bulkCalls[b].pc = "fetching" => Len(evs) = bulkCalls[b].i + 2
        /\ \A l \in bulkCalls[b].audience : EventsSince(b, l) = evs

C17_Witness ==
  \E b \in BulkIds :
    /\ bulkCalls[b].pc = "done"
    /\ Len(bulkCalls[b].emitted) = CatalogSize + 2
    /\ \E l \in bulkCalls[b].audience :
         /\ Len(delivered[l]) = CatalogSize + 2
         /\ delivered[l][CatalogSize + 1].progress = CatalogSize - 1
         /\ delivered[l][CatalogSize + 2].progress = CatalogSize

\* C18 as stated: the status emitted next after a 'completed' status is
\* 'running' with progress 0, also when fetchAllEndpoints calls overlap.
C18_Original ==
  [][(NewEvents # <<>> /\ progressStatus.status = "completed") =>
       /\ NewEvents[1].status = "running"
       /\ NewEvents[1].progress = 0]_vars

InFlight(f) == f.pc \in {"minting", "delay", "saving", "savingErr"}

\* C19: while a fetchAllEndpoints call is in its loop at index i, exactly the
\* fetch of endpoint i is in flight for it, the records of endpoints 0..i-1
\* are in its result mapping, and the status emitted last is the one of
\* endpoint i; outside the loop it has no fetch in flight.  The endpoints
\* are fetched in catalog order.
C19_OneFetchAtATime ==
  \A b \in BulkIds :
    LET c == bulkCalls[b]
        f == fetchCalls[<<"bulk", b>>]
    IN  /\ c.pc = "fetching" =>
             /\ InFlight(f)
             /\ f.endpoint = API_ENDPOINTS[c.i + 1].id
             /\ c.attempted = [k \in 1..(c.i + 1) |-> API_ENDPOINTS[k].id]
             /\ DOMAIN c.results = {API_ENDPOINTS[k].id : k \in 1..c.i}
             /\ Len(c.emitted) = c.i + 2
             /\ c.emitted[c.i + 2].currentEndpoint = API_ENDPOINTS[c.i + 1].name
        /\ c.pc # "fetching" => ~InFlight(f)

\* the second fetch of a call in flight, the record of the first one entered
C19_Witness ==
  \E b \in BulkIds :
    /\ bulkCalls[b].pc = "fetching"
    /\ bulkCalls[b].i = 1
    /\ fetchCalls[<<"bulk", b>>].pc = "saving"
    /\ DOMAIN bulkCalls[b].results = {API_ENDPOINTS[1].id}

\* the step in which getAccessToken is called for s, and the one in which it
\* hands a minted token to s
AsksToken(s) == /\ fetchCalls[s].pc = "idle"
                /\ fetchCalls'[s].pc # "idle"
                /\ credentials # Null
Mints(s)     == fetchCalls[s].pc = "minting" /\ fetchCalls'[s].pc = "delay"

\* C20: getAccessToken hands out the cached token, without minting, exactly
\* when a token is cached and the time is less than its expiry minus 60000;
\* otherwise it mints a token that expires 3600000 after the minting.  A
\* token handed to a fetch has more than 60000 of validity left, and the
\* token changes in no other step.
C20_TokenReuse ==
  [][/\ \A s \in Slots :
          /\ AsksToken(s) =>
               IF accessToken # NullStr /\ now < tokenExpiration - 60000
               THEN /\ fetchCalls'[s].pc = "delay"
                    /\ accessToken' = accessToken
                    /\ tokenExpiration' = tokenExpiration
                    /\ tokenExpiration - now > 60000
               ELSE fetchCalls'[s].pc = "minting"
          /\ Mints(s) =>
               /\ accessToken' # NullStr
               /\ tokenExpiration' = now + 3600000
               /\ tokenExpiration' - now > 60000
     /\ (\A s \in Slots : ~Mints(s)) =>
          /\ accessToken' = accessToken
          /\ tokenExpiration' = tokenExpiration]_vars

\* a fetch handed the cached token, after the fetch that minted it has
\* returned and the clock has advanced
C20_Witness ==
  \E s, t \in Slots :
    /\ fetchCalls[s].pc = "returned"
    /\ fetchCalls[s].result.success
    /\ fetchCalls[t].pc = "delay"
    /\ fetchCalls[t].reused
    /\ accessToken # NullStr
    /\ now > tokenExpiration - 3600000

\* C21 as stated: a stored snapshot is never changed or removed by a later
\* operation, and every createHistoricalSnapshot that stores its snapshot
\* increases the number of stored snapshots by one.
C21_Original ==
  [][/\ historical \subseteq historical'
     /\ Snapshots => Cardinality(historical') = Cardinality(historical) + 1]_vars

\* C22 as stated: every stored record has the id endpointId-timestamp, records
\* with different (endpointId, timestamp) pairs have different ids, and every
\* fetchFromEndpoint call that returns adds one record to the store and
\* leaves the records of earlier calls in it.
C22_Original ==
  [][/\ \A r \in responses' : r.id = ResponseId(r.endpointId, r.timestamp)
     /\ \A r, q \in responses' :
          (r.endpointId # q.endpointId \/ r.timestamp # q.timestamp) => r.id # q.id
     /\ \A s \in Slots :
          (Ends(s) /\ fetchCalls'[s].pc = "returned") =>
             /\ responses \subseteq responses'
             /\ Cardinality(responses') = Cardinality(responses) + 1]_vars

Last(s) == s[Len(s)]

\* C25: the progress status is never 'error': it is 'idle' exactly as long as
\* no fetchAllEndpoints call has emitted a status, and 'running' or
\* 'completed' afterwards; it is the status emitted last, and the last status
\* every registered callback was invoked with.
C25_ProgressNeverError ==
  /\ progressStatus.status \in {"idle", "running", "completed"}
  /\ progressStatus.status = "idle" <=>
       \A b \in BulkIds : bulkCalls[b].emitted = <<>>
  /\ progressStatus.status = "idle" => progressStatus = IdleStatus
  /\ progressStatus.status # "idle" =>
       \E b \in BulkIds : /\ bulkCalls[b].emitted # <<>>
                          /\ Last(bulkCalls[b].emitted) = progressStatus
  /\ \A l \in Registered :
       delivered[l] # <<>> => Last(delivered[l]) = progressStatus
  /\ \A l \in DOMAIN delivered :
       \A k \in 1..Len(delivered[l]) : delivered[l][k].status # "error"

\* a call that has completed after fetches that failed, one callback still
\* registered and one unregistered before the end
C25_Witness ==
  /\ progressStatus.status = "completed"
  /\ bulkCalls[1].pc = "done"
  /\ \E e \in CatalogIds : ~bulkCalls[1].results[e].success
  /\ \E l \in Registered :
       delivered[l] # <<>> /\ Last(delivered[l]).status = "completed"
  /\ \E k \in unsubscribed :
       delivered[k] # <<>> /\ Last(delivered[k]).status = "running"

\* the startup load and every setCredentials call made have finished
AllFinished == /\ initPc # "loading"
               /\ \A c \in SetIds : setCalls[c].pc \in {"idle", "done"}
SomeAccepted == \E c \in SetIds : setCalls[c].pc = "done" /\ setCalls[c].result

\* C26 (as amended): once the startup load and all setCredentials calls have
\* finished, the in-memory credentials equal the persisted credentials record
\* (or both are absent), unless the read of the startup load was rejected and
\* no setCredentials call has returned true: then the in-memory credentials
\* are absent whatever is persisted.
C26_MemoryMatchesStore ==
  AllFinished =>
    IF initPc = "failed" /\ ~SomeAccepted
    THEN credentials = Null
    ELSE \/ credentials = Null /\ dbCredentials = Undefined
         \/ credentials # Null /\ credentials = dbCredentials

\* C26 as stated: once the startup load and all setCredentials calls have
\* finished, the in-memory credentials equal the persisted credentials record
\* or both are absent.
C26_Original ==
  AllFinished =>
    \/ credentials = Null /\ dbCredentials = Undefined
    \/ credentials # Null /\ credentials = dbCredentials

\* the startup load found the stored record and two setCredentials calls
\* with different values were accepted, one of them before the load ended
C26_Witness ==
  /\ AllFinished
  /\ initPc = "found"
  /\ \E c, k \in SetIds :
       /\ setCalls[c].pc = "done" /\ setCalls[c].result
       /\ setCalls[k].pc = "done" /\ setCalls[k].result
       /\ setCalls[c].arg # setCalls[k].arg
  /\ credentials = dbCredentials
  /\ credentials.clientId = "b"

BulkReturns(b) == bulkCalls[b].pc # "done" /\ bulkCalls'[b].pc = "done"

\* C27 (as amended): when a fetchAllEndpoints call returns, every record of
\* its mapping that a fetchFromEndpoint call returned, failure records
\* included, is in the responses store under the id endpointId-timestamp;
\* the record the call builds itself for an endpoint whose fetchFromEndpoint
\* rejected is in the mapping only, and nothing is stored for that endpoint.
C27_ReturnedRecordsStored ==
  [][\A b \in BulkIds :
       BulkReturns(b) =>
         \A e \in DOMAIN bulkCalls'[b].results :
           LET r == bulkCalls'[b].results[e]
           IN  IF \E q \in responses' : q.endpointId = e
               THEN /\ Stored(r) \in responses'
                    /\ Stored(r).id = ResponseId(e, r.timestamp)
               ELSE /\ r = ErrorResponse(e, StorageFailure, r.timestamp)
                    /\ r.timestamp <= now]_vars

\* C27 as stated: when a fetchAllEndpoints call returns, every record of its
\* mapping is in the responses store.
C27_Original ==
  [][\A b \in BulkIds :
       BulkReturns(b) =>
         \A e \in DOMAIN bulkCalls'[b].results :
           Stored(bulkCalls'[b].results[e]) \in responses']_vars

\* a mapping with a stored failure record and a record built by the call
C27_Witness ==
  \E b \in BulkIds :
    /\ bulkCalls[b].pc = "done"
    /\ \E e1, e2 \in DOMAIN bulkCalls[b].results :
         /\ ~bulkCalls[b].results[e1].success
         /\ Stored(bulkCalls[b].results[e1]) \in responses
         /\ Stored(bulkCalls[b].results[e2]) \notin responses

\* C29 as stated: a fetchFromEndpoint call that enters getAccessToken while
\* the mint of another call is pending does not start a mint of its own, and
\* no token is minted while the cached token is still valid.
C29_Original ==
  [][\A s \in Slots :
       /\ (AsksToken(s) /\ \E t \in Slots \ {s} : fetchCalls[t].pc = "minting")
            => fetchCalls'[s].pc # "minting"
       /\ Mints(s) => ~TokenIsFresh]_vars

\* C28: no step of a setCredentials call, accepted or rejected, changes the
\* cached token or its expiry; a fetch that asks for a token while one is
\* cached and the time is less than its expiry minus 60000 is handed that
\* token without a mint, whatever has happened to the credentials since.
C28_SetCredentialsKeepsToken ==
  [][/\ \A c \in SetIds :
          setCalls'[c] # setCalls[c] =>
            /\ accessToken' = accessToken
            /\ tokenExpiration' = tokenExpiration
            /\ setCalls'[c].pc = "done" => setCalls'[c].token = accessToken'
     /\ \A s \in Slots :
          (AsksToken(s) /\ accessToken # NullStr
             /\ now < tokenExpiration - 60000) =>
            /\ fetchCalls'[s].pc = "delay"
            /\ fetchCalls'[s].reused
            /\ accessToken' = accessToken]_vars

\* a token minted under the credentials loaded at startup, still cached when
\* a call with other credentials was accepted, and handed to a fetch after
\* the clock has advanced
C28_Witness ==
  /\ initPc = "found"
  /\ \E c \in SetIds :
       /\ setCalls[c].pc = "done" /\ setCalls[c].result
       /\ setCalls[c].token # NullStr
       /\ setCalls[c].token = accessToken
       /\ credentials = setCalls[c].arg
       /\ credentials.clientId = "b"
  /\ now > tokenExpiration - 3600000
  /\ \E t \in Slots : fetchCalls[t].pc = "delay" /\ fetchCalls[t].reused

\* C24: in the revision with the snapshot, a fetchAllEndpoints call starts
\* its createHistoricalSnapshot in the step that emits 'completed', nothing
\* is written to the historical store before, and when the snapshot creation
\* settles, resolved or rejected, the call resolves with the mapping of all
\* catalog endpoints it had at the completed event and the progress status is
\* left as it is, 'completed'.
C24_SnapshotAfterCompleted ==
  [][/\ \A b \in BulkIds :
       /\ bulkCalls'[b].pc # "rejected"
       /\ (bulkCalls[b].pc # "snapshotting" /\ bulkCalls'[b].pc = "snapshotting") =>
            /\ NewEvents # <<>>
            /\ Last(NewEvents) = CompletedStatus(Len(Catalog))
            /\ progressStatus' = CompletedStatus(Len(Catalog))
            /\ historical' = historical
       /\ (bulkCalls[b].snapshots /\ bulkCalls[b].pc \in {"importing", "fetching"}) =>
            historical' = historical
       /\ bulkCalls[b].pc = "snapshotting" =>
            /\ Last(bulkCalls[b].emitted).status = "completed"
            /\ bulkCalls'[b].pc \in {"snapshotting", "done"}
            /\ bulkCalls'[b].results = bulkCalls[b].results
            /\ DOMAIN bulkCalls'[b].results = CatalogIds
            /\ progressStatus.status = "completed"
            /\ progressStatus' = progressStatus
            /\ bulkCalls'[b].emitted = bulkCalls[b].emitted
       /\ (bulkCalls[b].snapshots /\ BulkReturns(b)) =>
            bulkCalls[b].pc = "snapshotting"
     /\ historical' # historical =>
          \E b \in BulkIds : bulkCalls[b].pc = "snapshotting" /\ BulkReturns(b)]_vars

\* a call that has resolved with its mapping although its snapshot was not
\* written
C24_Witness ==
  \E b \in BulkIds :
    /\ bulkCalls[b].snapshots
    /\ bulkCalls[b].pc = "done"
    /\ historical = {}
    /\ DOMAIN bulkCalls[b].results = CatalogIds
    /\ \E e \in CatalogIds : bulkCalls[b].results[e].success
    /\ progressStatus.status = "completed"

\* C23: the Index page starts the login flow exactly when hasCredentials()
\* is true at its mount, and otherwise runs none of its steps.  In the flow
\* the last-login record is written first, fetchAllEndpoints is called only
\* in the step in which that write has succeeded, the snapshot is written
\* only when that call has returned, and the navigation is scheduled only in
\* the step in which the snapshot has been written; a failed step ends the
\* flow without navigation.
C23_LoginOrder ==
  [][/\ (index.pc = "unmounted" /\ index'.pc # "unmounted") =>
          /\ index'.pc = IF HasCredentials THEN "updatingLogin" ELSE "skipped"
          /\ UNCHANGED <<lastLogin, bulkCalls, historical>>
     /\ index.pc \in {"unmounted", "skipped", "failed", "navigating"} =>
          UNCHANGED <<lastLogin, bulkCalls, historical>>
     /\ index.pc \in {"skipped", "failed", "navigating"} => index' = index
     /\ lastLogin' # lastLogin =>
          /\ index.pc = "updatingLogin"
          /\ lastLogin' = now
          /\ index'.pc = "fetching"
     /\ \A b \in BulkIds :
          (bulkCalls[b].pc = "idle" /\ bulkCalls'[b].pc # "idle") =>
             /\ index.pc = "updatingLogin"
             /\ lastLogin' = now
             /\ historical' = historical
             /\ index' = [pc |-> "fetching", bulk |-> b]
     /\ (index.pc = "updatingLogin" /\ index'.pc = "failed") =>
          UNCHANGED <<lastLogin, bulkCalls, historical>>
     /\ historical' # historical =>
          /\ index.pc = "fetching"
          /\ bulkCalls[index.bulk].pc = "done"
          /\ DOMAIN bulkCalls[index.bulk].results = CatalogIds
          /\ lastLogin # UndefinedNum
          /\ index'.pc = "navigating"
     /\ (index.pc # "navigating" /\ index'.pc = "navigating") =>
          /\ index.pc = "fetching"
          /\ bulkCalls[index.bulk].pc = "done"
          /\ lastLogin # UndefinedNum
          /\ \E h \in historical' : h.id = SnapshotId(now) /\ h \notin historical
     /\ (index.pc = "fetching" /\ index'.pc = "failed") =>
          /\ bulkCalls[index.bulk].pc = "done"
          /\ historical' = historical]_vars

\* a login that has scheduled the navigation: the last-login record, the
\* records of the bulk fetch and the snapshot listing them are stored
C23_Witness ==
  /\ index.pc = "navigating"
  /\ lastLogin # UndefinedNum
  /\ bulkCalls[index.bulk].pc = "done"
  /\ \E h \in historical : Len(h.responseIds) = Len(Catalog)
  /\ \E e \in CatalogIds : bulkCalls[index.bulk].results[e].success

\* C30 as stated: while the dashboard is mounted, isFetching is true as long
\* as a fetchAllEndpoints call started by handleFetchAllData is in flight, so
\* that at most one such call is in flight, and isFetching is false when
\* none is.
C30_Original ==
  /\ dashboard.mounted =>
       /\ \A b \in dashboard.started : Active(b) => dashboard.isFetching
       /\ dashboard.isFetching => \E b \in dashboard.started : Active(b)
  /\ Cardinality({b \in dashboard.started : Active(b)}) <= 1

====
